---- MODULE Spec2Model ----
(***************************************************************************)
(* Model of flows/load_image.py: the FlowsImage container, the instrument  *)
(* classes with their identifier / extraction rules, the ordered           *)
(* `instruments` registry and the load_image loader.                       *)
(*                                                                         *)
(* Conventions.  A Python str is a tuple of one-character strings, so that *)
(* `in`, startswith, upper, strip ... are computed as Python computes      *)
(* them.  An Optional value is None (the empty tuple) or Some(v) (a        *)
(* one-element tuple).  A FITS header is a function from the keys that are *)
(* present to their values.                                                *)
(***************************************************************************)
EXTENDS Integers, Sequences, FiniteSets, TLC

VARIABLES
    file,          \* the FITS file on disk: primary header, data, extensions
    pc,            \* position inside load_image (or "idle" between calls)
    target_coord,  \* argument of the running load_image call
    handle,        \* the hdul handle of `with fits.open(...)`: "open" / "closed"
    idx,           \* position of `for name, inst_cls in instruments.items()`
    ext,           \* local `ext` of load_image
    mask,          \* local `mask` of load_image
    image,         \* the FlowsImage object (None before it is constructed)
    returned,      \* what the last finished load_image call gave its caller
    args,          \* arguments of a directly called function
    ret            \* its result; in load_image, the outcome on its way out

vars == <<file, pc, target_coord, handle, idx, ext, mask, image, returned, args, ret>>

-----------------------------------------------------------------------------
(* Python values *)

None == <<>>

Some(v) == <<v>>

IsNone(o) == o = None

Val(o) == o[1]

\* dict.get(key): None when the key is absent
get(d, key) == IF key \in DOMAIN d THEN Some(d[key]) ELSE None

\* dict.get(key, default)
get_default(d, key, default) == IF key \in DOMAIN d THEN d[key] ELSE default

\* all(list)
all(list) == \A i \in DOMAIN list : list[i]

\* sub in s, for two str
contains(sub, s) ==
    \E i \in 0..(Len(s) - Len(sub)) : SubSeq(s, i + 1, i + Len(sub)) = sub

\* s.startswith(prefix)
startswith(s, prefix) ==
    Len(prefix) <= Len(s) /\ SubSeq(s, 1, Len(prefix)) = prefix

ascii_lowercase == <<"a","b","c","d","e","f","g","h","i","j","k","l","m","n","o","p","q","r","s","t","u","v","w","x","y","z">>

ascii_uppercase == <<"A","B","C","D","E","F","G","H","I","J","K","L","M","N","O","P","Q","R","S","T","U","V","W","X","Y","Z">>

\* s.upper()
upper(s) ==
    [i \in DOMAIN s |->
        IF \E k \in DOMAIN ascii_lowercase : ascii_lowercase[k] = s[i]
        THEN ascii_uppercase[CHOOSE k \in DOMAIN ascii_lowercase : ascii_lowercase[k] = s[i]]
        ELSE s[i]]

\* s.lower()
lower(s) ==
    [i \in DOMAIN s |->
        IF \E k \in DOMAIN ascii_uppercase : ascii_uppercase[k] = s[i]
        THEN ascii_lowercase[CHOOSE k \in DOMAIN ascii_uppercase : ascii_uppercase[k] = s[i]]
        ELSE s[i]]

-----------------------------------------------------------------------------
(* FlowsImage.  A pixel grid is a tuple of rows; a float64 pixel is a      *)
(* decimal string, with "nan" and "inf" for the non-finite values.  Row    *)
(* and column arguments are numpy's zero-based indices.                    *)

NaN == "nan"

\* np.isfinite
isfinite(v) == v \notin {"nan", "inf", "-inf"}

\* float comparison: NaN equals nothing
float_eq(a, b) == a # NaN /\ b # NaN /\ a = b

nrows(img) == Len(img)

ncols(img) == IF Len(img) = 0 THEN 0 ELSE Len(img[1])

\* np.zeros_like(img, dtype='bool')
zeros_like(img) == [r \in 1..nrows(img) |-> [c \in 1..ncols(img) |-> FALSE]]

\* a |= b on boolean arrays: b is broadcast to the shape of a
mask_or(a, b) ==
    [r \in DOMAIN a |-> [c \in DOMAIN a[r] |->
        a[r][c] \/ b[IF nrows(b) = 1 THEN 1 ELSE r][IF ncols(b) = 1 THEN 1 ELSE c]]]

\* whether an array of shape `from` broadcasts to the shape `to`
broadcasts(from, to) ==
    (from[1] = to[1] \/ from[1] = 1) /\ (from[2] = to[2] \/ from[2] = 1)

\* ~np.isfinite(img)
nonfinite(img) == [r \in DOMAIN img |-> [c \in DOMAIN img[r] |-> ~isfinite(img[r][c])]]

\* check_finite leaving the mask as it is
check_finite_skipped(self) == self

\* FlowsImage.check_finite
check_finite(self) == [self EXCEPT !.mask = Some(mask_or(Val(self.mask), nonfinite(self.image)))]

\* FlowsImage.create_wcs
create_wcs(self) == [header |-> self.header, relax |-> TRUE]

\* FlowsImage.__init__ (dataclass) followed by __post_init__
FlowsImage(image_, header_, mask_) ==
    LET self0 == [image |-> image_, header |-> header_, mask |-> mask_,
                  peakmax |-> None, exptime |-> None, instrument_defaults |-> None,
                  site |-> None, obstime |-> None, photfilter |-> None, wcs |-> None,
                  clean |-> None, subclean |-> None, error |-> None,
                  shape |-> None, ob_type |-> None]
        self1 == [self0 EXCEPT !.shape = Some(<<nrows(image_), ncols(image_)>>)]
        self2 == [self1 EXCEPT !.wcs = Some(create_wcs(self1))]
        self3 == IF IsNone(self2.mask)
                 THEN [self2 EXCEPT !.mask = Some(zeros_like(self2.image))]
                 ELSE self2
    IN  check_finite(self3)

\* FlowsImage.update_mask
update_mask(self, mask_) == check_finite([self EXCEPT !.mask = Some(mask_)])

\* np.ma.masked_array(data=self.image, mask=self.mask, copy=False): a view of
\* the pixel buffer and of the mask object it was given
masked_array(data_, mask_) == [data |-> data_, mask |-> mask_]

\* create_masked_image building the view from a copy taken before the stamping
create_masked_image_copy_first(self) ==
    LET m == Val(self.mask)
        stamped == [r \in DOMAIN self.image |->
                       [c \in DOMAIN self.image[r] |->
                           IF m[r][c] THEN NaN ELSE self.image[r][c]]]
    IN  [self EXCEPT !.image = stamped, !.clean = Some(masked_array(self.image, m))]

\* FlowsImage.create_masked_image
create_masked_image(self) ==
    LET m == Val(self.mask)
        stamped == [r \in DOMAIN self.image |->
                       [c \in DOMAIN self.image[r] |->
                           IF m[r][c] THEN NaN ELSE self.image[r][c]]]
    IN  [self EXCEPT !.image = stamped, !.clean = Some(masked_array(stamped, m))]

\* writes to self.image show through the view self.clean (copy=False)
write_image(self, img) ==
    [self EXCEPT !.image = img,
                 !.clean = IF IsNone(self.clean) THEN None
                           ELSE Some([Val(self.clean) EXCEPT !.data = img])]

\* FlowsImage.set_edge_rows_to_value
set_edge_rows_to_value(self, y, value) ==
    write_image(self, [r \in DOMAIN self.image |->
                          [c \in DOMAIN self.image[r] |->
                              IF \E i \in DOMAIN y : y[i] = r - 1
                              THEN value ELSE self.image[r][c]]])

\* FlowsImage.set_edge_columns_to_value
set_edge_columns_to_value(self, x, value) ==
    write_image(self, [r \in DOMAIN self.image |->
                          [c \in DOMAIN self.image[r] |->
                              IF \E i \in DOMAIN x : x[i] = c - 1
                              THEN value ELSE self.image[r][c]]])

\* np.argmin of a boolean vector: the zero-based position of its first False,
\* 0 when it holds none
argmin(v) ==
    IF \E i \in DOMAIN v : ~v[i]
    THEN (CHOOSE i \in DOMAIN v : ~v[i] /\ \A j \in 1..(i - 1) : v[j]) - 1
    ELSE 0

\* the one-based positions of the slice [:a + 1] of a vector of length n
slice_to_one_more(n, a) == {i \in 1..n : i <= a + 1}

\* the one-based positions of the slice [:a] of a vector of length n
slice_to(n, a) == {i \in 1..n : i <= a}

\* the one-based positions of the slice [-b:] of a vector of length n (-0 is 0)
slice_from_minus(n, b) == IF b = 0 THEN 1..n ELSE {i \in 1..n : i > n - b}

\* get_edge_mask without the tests of the first and last pixel of each column
\* and row
get_edge_mask_unguarded(img, value) ==
    LET H == nrows(img)
        W == ncols(img)
        mask1 == [r \in 1..H |-> [c \in 1..W |-> float_eq(img[r][c], value)]]
        column(c) == [r \in 1..H |-> mask1[r][c]]
        flipped(v) == [i \in DOMAIN v |-> v[Len(v) + 1 - i]]
        all_rows == {r \in 1..H : \A c \in 1..W : mask1[r][c]}
        all_cols == {c \in 1..W : \A r \in 1..H : mask1[r][c]}
        a0(c) == argmin(column(c))
        b0(c) == argmin(flipped(column(c)))
        a1(r) == argmin(mask1[r])
        b1(r) == argmin(flipped(mask1[r]))
    IN  [r \in 1..H |-> [c \in 1..W |->
            \/ r \in all_rows
            \/ c \in all_cols
            \/ r \in slice_to(H, a0(c))
            \/ r \in slice_from_minus(H, b0(c))
            \/ c \in slice_to(W, a1(r))
            \/ c \in slice_from_minus(W, b1(r))]]

\* FlowsImage.get_edge_mask
get_edge_mask(img, value) ==
    LET H == nrows(img)
        W == ncols(img)
        mask1 == [r \in 1..H |-> [c \in 1..W |-> float_eq(img[r][c], value)]]
        column(c) == [r \in 1..H |-> mask1[r][c]]
        flipped(v) == [i \in DOMAIN v |-> v[Len(v) + 1 - i]]
        all_rows == {r \in 1..H : \A c \in 1..W : mask1[r][c]}
        all_cols == {c \in 1..W : \A r \in 1..H : mask1[r][c]}
        a0(c) == argmin(column(c))
        b0(c) == argmin(flipped(column(c)))
        a1(r) == argmin(mask1[r])
        b1(r) == argmin(flipped(mask1[r]))
    IN  [r \in 1..H |-> [c \in 1..W |->
            \/ r \in all_rows
            \/ c \in all_cols
            \/ mask1[1][c] /\ r \in slice_to(H, a0(c))
            \/ mask1[H][c] /\ r \in slice_from_minus(H, b0(c))
            \/ mask1[r][1] /\ c \in slice_to(W, a1(r))
            \/ mask1[r][W] /\ c \in slice_from_minus(W, b1(r))]]

\* FlowsImage.apply_edge_mask
apply_edge_mask(self, y, x, apply_existing_mask_first) ==
    LET s1 == IF apply_existing_mask_first THEN create_masked_image(self) ELSE self
        s2 == IF ~IsNone(y) THEN set_edge_rows_to_value(s1, Val(y), "0") ELSE s1
        s3 == IF ~IsNone(x) THEN set_edge_columns_to_value(s2, Val(x), "0") ELSE s2
        s4 == [s3 EXCEPT !.mask = Some(get_edge_mask(s3.image, "0"))]
    IN  create_masked_image(s4)

-----------------------------------------------------------------------------
(* The instrument classes: their class attributes.  A subclass is the base *)
(* record with the attributes its class body assigns.                      *)

Instrument ==
    [name |-> "Instrument", peakmax |-> None, siteid |-> None,
     telescope |-> <<>>, instrument |-> <<>>, origin |-> <<>>,
     unique_headers |-> None]

LCOGT ==
    [Instrument EXCEPT !.name = "LCOGT", !.siteid = None,
                       !.peakmax = Some(60000), !.origin = <<"L","C","O","G","T">>]

HAWKI ==
    [Instrument EXCEPT !.name = "HAWKI", !.siteid = Some(2),
                       !.telescope = <<"E","S","O","-","V","L","T","-","U","4">>, !.instrument = <<"H","A","W","K","I">>,
                       !.origin = <<"E","S","O","-","P","A","R","A","N","A","L">>,
                       !.unique_headers = Some("PRODCATG" :> <<"S","C","I","E","N","C","E",".","M","E","F","I","M","A","G","E">>)]

ALFOSC ==
    [Instrument EXCEPT !.name = "ALFOSC", !.peakmax = Some(80000), !.siteid = Some(5),
                       !.telescope = <<"N","O","T">>, !.instrument = <<"A","L","F","O","S","C">>,
                       !.unique_headers = Some("OBS_MODE" :> <<"i","m","a","g","i","n","g">>)]

NOTCAM ==
    [Instrument EXCEPT !.name = "NOTCAM", !.siteid = Some(5),
                       !.telescope = <<"N","O","T">>, !.instrument = <<"N","O","T","C","A","M">>,
                       !.unique_headers = Some("OBS_MODE" :> <<"i","m","a","g","i","n","g">>)]

PS1 ==
    [Instrument EXCEPT !.name = "PS1", !.siteid = Some(6),
                       !.unique_headers = Some(("FPA.TELESCOPE" :> <<"P","S","1">>)
                                               @@ ("FPA.INSTRUMENT" :> <<"G","P","C","1">>))]

Liverpool ==
    [Instrument EXCEPT !.name = "Liverpool", !.siteid = Some(8),
                       !.telescope = <<"L","i","v","e","r","p","o","o","l"," ","T","e","l","e","s","c","o","p","e">>]

Omega2000 ==
    [Instrument EXCEPT !.name = "Omega2000", !.siteid = Some(9),
                       !.telescope = <<"C","A"," ","3",".","5","m">>, !.instrument = <<"O","m","e","g","a","2","0","0","0">>]

Swope ==
    [Instrument EXCEPT !.name = "Swope", !.siteid = Some(10), !.telescope = <<"S","W","O">>]

\* class Swope_newheader(Swope): inherits Swope's attributes
Swope_newheader == [Swope EXCEPT !.name = "Swope_newheader"]

Dupont ==
    [Instrument EXCEPT !.name = "Dupont", !.siteid = Some(14),
                       !.telescope = <<"D","U","P">>, !.instrument = <<"D","i","r","e","c","t","/","S","I","T","e","2","K","-","1">>,
                       !.unique_headers = Some("SITENAME" :> <<"L","C","O">>)]

RetroCam ==
    [Instrument EXCEPT !.name = "RetroCam", !.siteid = Some(16),
                       !.telescope = <<"D","U","P">>, !.instrument = <<"R","e","t","r","o","C","a","m">>]

Baade ==
    [Instrument EXCEPT !.name = "Baade", !.siteid = Some(11),
                       !.telescope = <<"B","a","a","d","e">>, !.instrument = <<"F","o","u","r","S","t","a","r">>,
                       !.unique_headers = Some("SITENAME" :> <<"L","C","O">>)]

Sofi == [Instrument EXCEPT !.name = "Sofi", !.siteid = Some(12), !.instrument = <<"S","O","F","I">>]

EFOSC ==
    [Instrument EXCEPT !.name = "EFOSC", !.siteid = Some(15),
                       !.telescope = <<"E","S","O","-","N","T","T">>, !.instrument = <<"E","F","O","S","C">>]

AstroNIRCam ==
    [Instrument EXCEPT !.name = "AstroNIRCam", !.siteid = Some(13),
                       !.telescope = <<"S","A","I","-","2",".","5">>, !.instrument = <<"A","S","T","R","O","N","I","R","C","A","M">>]

OmegaCam ==
    [Instrument EXCEPT !.name = "OmegaCam", !.siteid = Some(18), !.instrument = <<"O","M","E","G","A","C","A","M">>]

AndiCam ==
    [Instrument EXCEPT !.name = "AndiCam", !.siteid = Some(20),
                       !.instrument = <<"A","N","D","I","C","A","M","-","C","C","D">>,
                       !.unique_headers = Some("OBSERVAT" :> <<"C","T","I","O">>)]

PairTel ==
    [Instrument EXCEPT !.name = "PairTel", !.siteid = Some(21),
                       !.telescope = <<"1",".","3","m"," ","P","A","I","R","I","T","E","L">>, !.instrument = <<"2","M","A","S","S"," ","S","u","r","v","e","y"," ","c","a","m">>]

TJO_MEIA2 ==
    [Instrument EXCEPT !.name = "TJO_MEIA2", !.siteid = Some(22),
                       !.telescope = <<"T","J","O">>, !.instrument = <<"M","E","I","A","2">>]

TJO_MEIA3 ==
    [Instrument EXCEPT !.name = "TJO_MEIA3", !.siteid = Some(22),
                       !.telescope = <<"T","J","O">>, !.instrument = <<"M","E","I","A","3">>]

RATIR ==
    [Instrument EXCEPT !.name = "RATIR", !.siteid = Some(23),
                       !.telescope = <<"O","A","N","/","S","P","M"," ","H","a","r","o","l","d"," ","L","."," ","J","o","h","n","s","o","n"," ","1",".","5","-","m","e","t","e","r">>]

\* `telescope: '1.82m Reflector'` and `instrument: 'AFOSC'` are annotations, not
\* assignments: the class keeps Instrument's empty telescope and instrument.
AFOSC ==
    [Instrument EXCEPT !.name = "AFOSC", !.siteid = Some(25), !.peakmax = Some(50000)]

\* telescope, instrument and origin are annotations here too; unique_headers is
\* assigned (SITELAT 45.8494444, written by its decimal digits).
Schmidt ==
    [Instrument EXCEPT !.name = "Schmidt", !.siteid = Some(26), !.peakmax = Some(56000),
                       !.unique_headers = Some("SITELAT" :> <<"4","5",".","8","4","9","4","4","4","4">>)]

\* the registry if the class without criteria came first
instruments_AFOSC_first ==
    <<AFOSC, LCOGT, HAWKI, ALFOSC, NOTCAM, PS1, Liverpool, Omega2000, Swope, Swope_newheader,
      Dupont, RetroCam, Baade, Sofi, EFOSC, AstroNIRCam, OmegaCam, AndiCam, PairTel,
      TJO_MEIA2, TJO_MEIA3, RATIR, Schmidt>>

\* the registry, in insertion order
instruments ==
    <<LCOGT, HAWKI, ALFOSC, NOTCAM, PS1, Liverpool, Omega2000, Swope, Swope_newheader,
      Dupont, RetroCam, Baade, Sofi, EFOSC, AstroNIRCam, OmegaCam, AndiCam, PairTel,
      TJO_MEIA2, TJO_MEIA3, RATIR, Schmidt, AFOSC>>

-----------------------------------------------------------------------------
(* The extraction rules.  A rule that can raise gives Ok(value) or         *)
(* Raise(exception).                                                       *)

Ok(v) == [ok |-> TRUE, v |-> v]

Raise(e) == [ok |-> FALSE, exc |-> e]

\* header[key] of a required key
item(hdr, key) == IF key \in DOMAIN hdr THEN Ok(hdr[key]) ELSE Raise("KeyError")

\* dict.get(key, key): translate through a lookup table, else keep the label
translate(table, label) == IF label \in DOMAIN table THEN table[label] ELSE label

whitespace == {" ", "\t", "\n", "\r"}

\* s.strip()
strip(s) ==
    IF \A i \in DOMAIN s : s[i] \in whitespace THEN <<>>
    ELSE LET first == CHOOSE i \in DOMAIN s :
                          s[i] \notin whitespace /\ \A j \in 1..(i - 1) : s[j] \in whitespace
             last == CHOOSE i \in DOMAIN s :
                         s[i] \notin whitespace /\ \A j \in (i + 1)..Len(s) : s[j] \in whitespace
         IN  SubSeq(s, first, last)

\* s.replace(old, new), old not empty
RECURSIVE replace(_, _, _)
replace(s, old, new) ==
    IF Len(s) < Len(old) THEN s
    ELSE IF startswith(s, old)
         THEN new \o replace(SubSeq(s, Len(old) + 1, Len(s)), old, new)
         ELSE <<Head(s)>> \o replace(Tail(s), old, new)

\* api.get_site(siteid): the site-lookup collaborator's answer
api_get_site(siteid) ==
    [siteid |-> siteid, EarthLocation |-> [of_site |-> siteid]]

\* api.sites.get_all_sites(): the sites the collaborator lists
api_get_all_sites ==
    {[siteid |-> 1, site_keyword |-> <<"c","o","j">>, EarthLocation |-> [of_site |-> 1]],
     [siteid |-> 3, site_keyword |-> <<"l","s","c">>, EarthLocation |-> [of_site |-> 3]]}

\* astropy Time(val, format=..., scale='utc', location=...)
Time(val, format, location) ==
    [val |-> val, format |-> format, scale |-> "utc", location |-> location,
     plus_half_seconds |-> 0, ltt_bary |-> None]

\* obstime += exptime * u.second: the end of the exposure
add_whole(obstime, exptime) ==
    [obstime EXCEPT !.plus_half_seconds = @ + 2 * exptime]

\* obstime += 0.5 * exptime * u.second: plus_half_seconds counts the seconds
\* whose half has been added to val
add_half(obstime, exptime) ==
    [obstime EXCEPT !.plus_half_seconds = @ + exptime]

\* Instrument.get_site
Instrument_get_site(cls, image_) ==
    IF ~IsNone(cls.siteid) THEN Some(api_get_site(Val(cls.siteid))) ELSE None

\* LCOGT.get_site (self.image is set when process_image runs)
LCOGT_get_site(cls, image_) ==
    LET nonesite == [siteid |-> None]
        sites == api_get_all_sites
    IN  IF "SITE" \notin DOMAIN image_.header THEN Raise("KeyError")
        ELSE IF \E s \in sites : s.site_keyword = image_.header["SITE"]
             THEN Ok(Some(CHOOSE s \in sites : s.site_keyword = image_.header["SITE"]))
             ELSE Ok(Some(nonesite))

\* self.get_site()
get_site(cls, image_) ==
    IF cls.name = "LCOGT" THEN LCOGT_get_site(cls, image_)
    ELSE Ok(Instrument_get_site(cls, image_))

\* Instrument.get_exptime
Instrument_get_exptime(cls, image_) ==
    LET exptime == get(image_.header, "EXPTIME")
    IN  IF IsNone(exptime) THEN Raise("ValueError") ELSE Ok(Val(exptime))

\* Baade.get_exptime
Baade_get_exptime(cls, image_) ==
    LET exptime == Instrument_get_exptime(cls, image_)
    IN  IF ~exptime.ok THEN exptime
        ELSE IF "NCOMBINE" \notin DOMAIN image_.header THEN Raise("KeyError")
        ELSE Ok(exptime.v * image_.header["NCOMBINE"])

\* AstroNIRCam.get_exptime
AstroNIRCam_get_exptime(cls, image_) ==
    LET exptime == get(image_.header, "FULL_EXP")
    IN  IF ~IsNone(exptime) THEN Ok(Val(exptime)) ELSE Instrument_get_exptime(cls, image_)

\* self.get_exptime()
get_exptime(cls, image_) ==
    CASE cls.name = "Baade" -> Baade_get_exptime(cls, image_)
      [] cls.name = "AstroNIRCam" -> AstroNIRCam_get_exptime(cls, image_)
      [] OTHER -> Instrument_get_exptime(cls, image_)

\* self.image.site['EarthLocation']
site_location(image_) ==
    IF IsNone(image_.site) THEN Raise("TypeError")
    ELSE IF "EarthLocation" \notin DOMAIN Val(image_.site) THEN Raise("KeyError")
    ELSE Ok(Val(image_.site).EarthLocation)

\* Time(self.image.header[key], format=..., scale='utc',
\*      location=self.image.site['EarthLocation'])
header_time(image_, key, format) ==
    IF key \notin DOMAIN image_.header THEN Raise("KeyError")
    ELSE IF ~site_location(image_).ok THEN site_location(image_)
    ELSE Ok(Time(image_.header[key], format, site_location(image_).v))

\* the same, made the centre of the exposure: obstime += 0.5 * exptime * u.second
header_time_plus_half(image_, key, format) ==
    LET obstime == header_time(image_, key, format)
    IN  IF ~obstime.ok THEN obstime ELSE Ok(add_half(obstime.v, Val(image_.exptime)))

\* Instrument.get_obstime
Instrument_get_obstime(image_) == header_time(image_, "JD", "jd")

\* LCOGT.get_obstime
LCOGT_get_obstime(image_) ==
    IF {"LATITUDE", "LONGITUD", "HEIGHT", "DATE-OBS"} \subseteq DOMAIN image_.header
    THEN LET observatory == [lat |-> image_.header["LATITUDE"],
                             lon |-> image_.header["LONGITUD"],
                             height |-> image_.header["HEIGHT"]]
         IN  Ok(add_half(Time(image_.header["DATE-OBS"], "isot", observatory),
                         Val(image_.exptime)))
    ELSE Raise("KeyError")

\* Sofi.get_obstime
Sofi_get_obstime(image_) ==
    IF "TMID" \in DOMAIN image_.header
    THEN header_time(image_, "TMID", "mjd")
    ELSE header_time_plus_half(image_, "MJD-OBS", "mjd")

\* AstroNIRCam.get_obstime
AstroNIRCam_get_obstime(image_) ==
    IF "MIDPOINT" \in DOMAIN image_.header
    THEN header_time(image_, "MIDPOINT", "isot")
    ELSE header_time(image_, "MJD-AVG", "mjd")

\* AndiCam.get_obstime, TJO_MEIA2.get_obstime, TJO_MEIA3.get_obstime
super_get_obstime_plus_half(image_) ==
    LET obstime == Instrument_get_obstime(image_)
    IN  IF ~obstime.ok THEN obstime ELSE Ok(add_half(obstime.v, Val(image_.exptime)))

\* PairTel.get_obstime
PairTel_get_obstime(image_) ==
    LET time_start == header_time(image_, "STRT_CPU", "iso")
        time_stop == header_time(image_, "STOP_CPU", "iso")
    IN  IF ~time_start.ok THEN time_start
        ELSE IF ~time_stop.ok THEN time_stop
        ELSE Ok(add_half(time_start.v, time_stop.v.val - time_start.v.val))

\* self.get_obstime()
get_obstime(cls, image_) ==
    CASE cls.name = "LCOGT" -> LCOGT_get_obstime(image_)
      [] cls.name \in {"HAWKI", "Liverpool", "EFOSC", "AFOSC", "Schmidt"} ->
             header_time_plus_half(image_, "DATE-OBS", "isot")
      [] cls.name \in {"ALFOSC", "NOTCAM"} -> header_time(image_, "DATE-AVG", "isot")
      [] cls.name = "PS1" -> header_time(image_, "MJD-OBS", "mjd")
      [] cls.name \in {"Omega2000", "Swope_newheader", "OmegaCam"} ->
             header_time_plus_half(image_, "MJD-OBS", "mjd")
      [] cls.name = "Sofi" -> Sofi_get_obstime(image_)
      [] cls.name = "AstroNIRCam" -> AstroNIRCam_get_obstime(image_)
      [] cls.name \in {"AndiCam", "TJO_MEIA2", "TJO_MEIA3"} ->
             super_get_obstime_plus_half(image_)
      [] cls.name = "PairTel" -> PairTel_get_obstime(image_)
      [] cls.name = "RATIR" -> header_time(image_, "DATE-OBS", "isot")
      [] OTHER -> Instrument_get_obstime(image_)

-----------------------------------------------------------------------------
(* get_photfilter *)

\* from .filters import FILTERS: the canonical filter names (the keys)
FILTERS_keys ==
    {<<"u","p">>, <<"g","p">>, <<"r","p">>, <<"i","p">>, <<"z","p">>, <<"B">>, <<"V">>, <<"R">>, <<"J">>, <<"H">>, <<"K">>}

\* {...}.get(self.image.header[key], self.image.header[key])
translated_item(hdr, key, table) ==
    IF key \notin DOMAIN hdr THEN Raise("KeyError") ELSE Ok(translate(table, hdr[key]))

\* the alternate-key search of ALFOSC and NOTCAM: .strip() is called on
\* header.get(key) before the value is tested, so an absent key raises
filters_used_unguarded(hdr, check_headers) ==
    IF \E i \in DOMAIN check_headers : check_headers[i] \notin DOMAIN hdr
    THEN Raise("AttributeError")
    ELSE Ok(SelectSeq([i \in DOMAIN check_headers |-> hdr[check_headers[i]]],
                      LAMBDA v : v # <<>> /\ lower(strip(v)) # <<"o","p","e","n">>))

\* the alternate-key search of Sofi: header.get(key) is tested first
filters_used_guarded(hdr, check_headers) ==
    SelectSeq([i \in DOMAIN check_headers |-> get_default(hdr, check_headers[i], <<>>)],
              LAMBDA v : v # <<>> /\ lower(strip(v)) # <<"o","p","e","n">>)

\* Instrument.get_photfilter
Instrument_get_photfilter(image_) == item(image_.header, "FILTER")

\* LCOGT.get_photfilter
LCOGT_get_photfilter(image_) ==
    translated_item(image_.header, "FILTER", <<"z","s">> :> <<"z","p">>)

\* ALFOSC.get_photfilter
ALFOSC_get_photfilter(image_) ==
    LET hdr == image_.header
        used == filters_used_unguarded(hdr, <<"ALFLTNM", "FAFLTNM", "FBFLTNM">>)
    IN  IF "FILTER" \in DOMAIN hdr
        THEN Ok(LET table == (<<"B"," ","B","e","s">> :> <<"B">>) @@ (<<"V"," ","B","e","s">> :> <<"V">>)
                          @@ (<<"R"," ","B","e","s">> :> <<"R">>) @@ (<<"g"," ","S","D","S","S">> :> <<"g","p">>)
                          @@ (<<"r"," ","S","D","S","S">> :> <<"r","p">>) @@ (<<"i"," ","S","D","S","S">> :> <<"i","p">>)
                          @@ (<<"i"," ","i","n","t">> :> <<"i","p">>) @@ (<<"u"," ","S","D","S","S">> :> <<"u","p">>)
                          @@ (<<"z"," ","S","D","S","S">> :> <<"z","p">>)
                    label == replace(hdr["FILTER"], <<"_">>, <<" ">>)
                IN  IF label \in DOMAIN table THEN table[label] ELSE hdr["FILTER"])
        ELSE IF ~used.ok THEN used
        ELSE IF Len(used.v) = 1
        THEN Ok(LET table == (<<"B","_","B","e","s"," ","4","4","0","_","1","0","0">> :> <<"B">>) @@ (<<"V","_","B","e","s"," ","5","3","0","_","8","0">> :> <<"V">>)
                          @@ (<<"R","_","B","e","s"," ","6","5","0","_","1","3","0">> :> <<"R">>) @@ (<<"g","'","_","S","D","S","S"," ","4","8","0","_","1","4","5">> :> <<"g","p">>)
                          @@ (<<"r","'","_","S","D","S","S"," ","6","1","8","_","1","4","8">> :> <<"r","p">>) @@ (<<"i","'","_","S","D","S","S"," ","7","7","1","_","1","7","1">> :> <<"i","p">>)
                          @@ (<<"i","_","i","n","t"," ","7","9","7","_","1","5","7">> :> <<"i","p">>) @@ (<<"z","'","_","S","D","S","S"," ","8","3","2","_","L","P">> :> <<"z","p">>)
                    found == strip(used.v[1])
                    label == replace(found, <<" "," ">>, <<" ">>)
                IN  IF label \in DOMAIN table THEN table[label] ELSE found)
        ELSE Raise("RuntimeError: Could not determine filter used.")

\* NOTCAM.get_photfilter
NOTCAM_get_photfilter(image_) ==
    LET hdr == image_.header
        used == filters_used_unguarded(hdr, <<"NCFLTNM1", "NCFLTNM2">>)
    IN  IF "FILTER" \in DOMAIN hdr THEN Raise("RuntimeError: NOTCAM: Filter keyword defined")
        ELSE IF ~used.ok THEN used
        ELSE IF Len(used.v) = 1 THEN Ok(translate(<<"K","s">> :> <<"K">>, strip(used.v[1])))
        ELSE Raise("RuntimeError: Could not determine filter used.")

\* Sofi.get_photfilter
Sofi_get_photfilter(image_) ==
    LET hdr == image_.header
        photfilter_translate == <<"K","s">> :> <<"K">>
        used == filters_used_guarded(hdr, <<"ESO INS FILT1 ID", "ESO INS FILT2 ID">>)
    IN  IF "FILTER" \in DOMAIN hdr THEN Ok(translate(photfilter_translate, hdr["FILTER"]))
        ELSE IF Len(used) = 1 THEN Ok(translate(photfilter_translate, strip(used[1])))
        ELSE Raise("RuntimeError: Could not determine filter used.")

\* AFOSC.get_photfilter (with_first_letter) and Schmidt.get_photfilter (without)
sloan_get_photfilter(image_, with_first_letter) ==
    LET hdr == image_.header
    IN  IF "FILTER" \notin DOMAIN hdr THEN Raise("KeyError")
        ELSE LET filt == hdr["FILTER"]
             IN  IF contains(<<"s","l","o","a","n">>, lower(filt)) THEN Ok(<<filt[1]>> \o <<"p">>)
                 ELSE IF filt \in FILTERS_keys THEN Ok(filt)
                 ELSE IF (filt \o <<"p">>) \in FILTERS_keys THEN Ok(filt \o <<"p">>)
                 ELSE IF with_first_letter /\ filt = <<>> THEN Raise("IndexError")
                 ELSE IF with_first_letter /\ <<filt[1]>> \in FILTERS_keys THEN Ok(<<filt[1]>>)
                 ELSE Raise("ValueError")

\* self.get_photfilter()
get_photfilter(cls, image_) ==
    LET hdr == image_.header
        ugri == (<<"u">> :> <<"u","p">>) @@ (<<"g">> :> <<"g","p">>) @@ (<<"r">> :> <<"r","p">>) @@ (<<"i">> :> <<"i","p">>)
    IN  CASE cls.name = "LCOGT" -> LCOGT_get_photfilter(image_)
          [] cls.name = "ALFOSC" -> ALFOSC_get_photfilter(image_)
          [] cls.name = "NOTCAM" -> NOTCAM_get_photfilter(image_)
          [] cls.name = "PS1" ->
                 translated_item(hdr, "FPA.FILTER",
                     (<<"g",".","0","0","0","0","0">> :> <<"g","p">>) @@ (<<"r",".","0","0","0","0","0">> :> <<"r","p">>)
                     @@ (<<"i",".","0","0","0","0","0">> :> <<"i","p">>) @@ (<<"z",".","0","0","0","0","0">> :> <<"z","p">>))
          [] cls.name = "Liverpool" ->
                 translated_item(hdr, "FILTER1",
                     (<<"B","e","s","s","e","l","-","B">> :> <<"B">>) @@ (<<"B","e","s","s","e","l","l","-","B">> :> <<"B">>)
                     @@ (<<"B","e","s","s","e","l","-","V">> :> <<"V">>) @@ (<<"B","e","s","s","e","l","l","-","V">> :> <<"V">>)
                     @@ (<<"S","D","S","S","-","U">> :> <<"u","p">>) @@ (<<"S","D","S","S","-","G">> :> <<"g","p">>)
                     @@ (<<"S","D","S","S","-","R">> :> <<"r","p">>) @@ (<<"S","D","S","S","-","I">> :> <<"i","p">>)
                     @@ (<<"S","D","S","S","-","Z">> :> <<"z","p">>))
          [] cls.name \in {"Swope", "Swope_newheader", "Dupont"} ->
                 translated_item(hdr, "FILTER", ugri)
          [] cls.name = "RetroCam" ->
                 translated_item(hdr, "FILTER",
                     (<<"Y","c">> :> <<"Y">>) @@ (<<"H","c">> :> <<"H">>) @@ (<<"J","o">> :> <<"J">>))
          [] cls.name = "Baade" ->
                 translated_item(hdr, "FILTER", (<<"K","s">> :> <<"K">>) @@ (<<"J","1">> :> <<"Y">>))
          [] cls.name = "Sofi" -> Sofi_get_photfilter(image_)
          [] cls.name = "EFOSC" ->
                 translated_item(hdr, "FILTER",
                     (<<"g","7","8","2">> :> <<"g","p">>) @@ (<<"r","7","8","4">> :> <<"r","p">>) @@ (<<"i","7","0","5">> :> <<"i","p">>)
                     @@ (<<"B","6","3","9">> :> <<"B">>) @@ (<<"V","6","4","1">> :> <<"V">>))
          [] cls.name = "AstroNIRCam" ->
                 translated_item(hdr, "FILTER", (<<"H","_","O","p","e","n">> :> <<"H">>) @@ (<<"K","_","O","p","e","n">> :> <<"K">>))
          [] cls.name = "OmegaCam" ->
                 translated_item(hdr, "ESO INS FILT1 NAME", <<"i","_","S","D","S","S">> :> <<"i","p">>)
          [] cls.name = "AndiCam" -> item(hdr, "CCDFLTID")
          [] cls.name = "PairTel" ->
                 translated_item(hdr, "FILTER",
                     (<<"j">> :> <<"J">>) @@ (<<"h">> :> <<"H">>) @@ (<<"k">> :> <<"K">>))
          [] cls.name = "RATIR" ->
                 translated_item(hdr, "FILTER",
                     (<<"Z">> :> <<"z","p">>) @@ (<<"r">> :> <<"r","p">>) @@ (<<"i">> :> <<"i","p">>))
          [] cls.name = "AFOSC" -> sloan_get_photfilter(image_, TRUE)
          [] cls.name = "Schmidt" -> sloan_get_photfilter(image_, FALSE)
          [] OTHER -> Instrument_get_photfilter(image_)

\* Instrument.set_instrument_defaults: InstrumentDefaults()
InstrumentDefaults == [radius |-> "10", fwhm |-> "6.0", fwhm_min |-> "3.5", fwhm_max |-> "18.0"]

-----------------------------------------------------------------------------
(* Extension, mask and construction of the instrument object.  The file is *)
(* [primary |-> HDU, extensions |-> tuple of HDUs, bpm |-> None or the     *)
(* data of the extension named BPM]; an HDU is [header, data].  Sky and    *)
(* pixel positions are counted in half pixels, so that the half-pixel      *)
(* margin of the footprint test is exact.                                  *)

\* hdul[k]
hdu(hdul, k) ==
    IF k = 0 THEN Ok(hdul.primary)
    ELSE IF k \in 1..Len(hdul.extensions) THEN Ok(hdul.extensions[k])
    ELSE Raise("IndexError")

\* coords.SkyCoord(ra=..., dec=..., frame='icrs')
SkyCoord(ra, dec) == [type |-> "SkyCoord", ra |-> ra, dec |-> dec]

\* verify_coordinates
verify_coordinates(target_coords) ==
    IF IsNone(target_coords) THEN None
    ELSE IF Val(target_coords).type = "SkyCoord" THEN target_coords
    ELSE IF Len(Val(target_coords).items) = 2
         THEN Some(SkyCoord(Val(target_coords).items[1], Val(target_coords).items[2]))
    ELSE None

\* WCS(header=hdul[k].header, relax=True).all_world2pix(target_radec, 0): the
\* extension's mapping is a shift of the sky position by its reference point.
\* The result is <<2 * pix[0], 2 * pix[1]>>.
all_world2pix(header, target_radec) ==
    <<target_radec[1] - header.CRVAL1, target_radec[2] - header.CRVAL2>>

\* the footprint test without the half-pixel margin: 0 <= pix <= s - 1
on_extension_without_margin(header, pix2) ==
    LET s == <<header.NAXIS2, header.NAXIS1>>
    IN  /\ 0 <= pix2[1] /\ pix2[1] <= 2 * s[2] - 2
        /\ 0 <= pix2[2] /\ pix2[2] <= 2 * s[1] - 2

\* -0.5 <= pix[0] <= s[1] - 0.5 and -0.5 <= pix[1] <= s[0] - 0.5, on doubled values
on_extension(header, pix2) ==
    LET s == <<header.NAXIS2, header.NAXIS1>>
    IN  /\ -1 <= pix2[1] /\ pix2[1] <= 2 * s[2] - 1
        /\ -1 <= pix2[2] /\ pix2[2] <= 2 * s[1] - 1

\* the loop `for k in range(1, 5)` of HAWKI.get_ext, from k on
RECURSIVE search_extensions(_, _, _, _)
search_extensions(hdul, target_radec, fallback_extension, k) ==
    IF k >= 5
    THEN IF ~IsNone(fallback_extension) THEN Ok(Val(fallback_extension))
         ELSE Raise("RuntimeError: Could not find image extension that target is on!")
    ELSE IF ~hdu(hdul, k).ok THEN hdu(hdul, k)
    ELSE IF ~({"NAXIS1", "NAXIS2"} \subseteq DOMAIN hdu(hdul, k).v.header) THEN Raise("KeyError")
    ELSE IF on_extension(hdu(hdul, k).v.header,
                         all_world2pix(hdu(hdul, k).v.header, target_radec))
         THEN Ok(k)
    ELSE search_extensions(hdul, target_radec, fallback_extension, k + 1)

\* HAWKI.get_ext
HAWKI_get_ext(hdul, target_coords, fallback_extension) ==
    LET target == verify_coordinates(target_coords)
    IN  IF IsNone(target) THEN Raise("ValueError")
        ELSE search_extensions(hdul, <<Val(target).ra, Val(target).dec>>,
                               fallback_extension, 1)

\* Instrument.get_ext
Instrument_get_ext(hdul, target_coords) == 0

\* inst_cls.get_ext(hdul, target_coord)
get_ext(cls, hdul, target_coords) ==
    IF cls.name = "HAWKI" THEN HAWKI_get_ext(hdul, target_coords, None)
    ELSE Ok(Instrument_get_ext(hdul, target_coords))

\* np.asarray(data, dtype='bool')
asarray_bool(data) == [r \in DOMAIN data |-> [c \in DOMAIN data[r] |-> data[r][c] # 0]]

\* LCOGT.get_mask
LCOGT_get_mask(hdul) ==
    IF ~IsNone(hdul.bpm) THEN Some(asarray_bool(Val(hdul.bpm))) ELSE None

\* inst_cls.get_mask(hdul)
get_mask(cls, hdul) == IF cls.name = "LCOGT" THEN LCOGT_get_mask(hdul) ELSE None

\* s.split('_')[-1]
last_part(s, sep) ==
    IF \E i \in DOMAIN s : s[i] = sep
    THEN LET i == CHOOSE i \in DOMAIN s : s[i] = sep /\ \A j \in (i + 1)..Len(s) : s[j] # sep
         IN  SubSeq(s, i + 1, Len(s))
    ELSE s

\* HAWKI.get_obtype
get_obtype(image_) ==
    IF "HIERARCH ESO OCS DET1 IMGNAME" \notin DOMAIN image_.header THEN Raise("KeyError")
    ELSE LET ob_type == last_part(image_.header["HIERARCH ESO OCS DET1 IMGNAME"], "_")
         IN  IF contains(<<"A","u","t","o">>, ob_type)
             THEN Ok([image_ EXCEPT !.ob_type = Some(<<"A","u","t","o","j","i","t","t","e","r">>)])
             ELSE IF contains(<<"F","i","x","e","d">>, ob_type)
             THEN Ok([image_ EXCEPT !.ob_type = Some(<<"F","i","x","e","d","O","f","f","s","e","t">>)])
             ELSE Raise("RuntimeError: Image OB Type not AutoJitter or FixedOffset")

\* inst_cls(image): Instrument.__init__, and HAWKI.__init__ which reads the OB type
new_instrument(cls, image_) ==
    IF cls.name = "HAWKI" THEN get_obtype(image_) ELSE Ok(image_)

\* correct_barycentric: obstime.tdb + obstime.light_travel_time(target_coord, ...);
\* light_travel_time needs a SkyCoord
correct_barycentric(obstime, target_coord_) ==
    IF target_coord_.type # "SkyCoord" THEN Raise("AttributeError")
    ELSE Ok([obstime EXCEPT !.scale = "tdb", !.ltt_bary = Some(target_coord_)])

-----------------------------------------------------------------------------
(* identifier *)

\* Instrument.identifier with the origin compared as the telescope is (`in`)
Instrument_identifier_origin_in(cls, telescope, origin, instrument, hdr) ==
    LET unique_conds ==
            all(IF ~IsNone(cls.unique_headers)
                THEN [key \in DOMAIN Val(cls.unique_headers) |->
                         get(hdr, key) = get(Val(cls.unique_headers), key)]
                ELSE <<TRUE>>)
    IN  all(<<IF cls.telescope # <<>> THEN contains(cls.telescope, telescope) ELSE TRUE,
              IF cls.origin # <<>> THEN contains(cls.origin, origin) ELSE TRUE,
              IF cls.instrument # <<>> THEN contains(cls.instrument, instrument) ELSE TRUE,
              unique_conds>>)

\* Instrument.identifier
Instrument_identifier(cls, telescope, origin, instrument, hdr) ==
    LET unique_conds ==
            all(IF ~IsNone(cls.unique_headers)
                THEN [key \in DOMAIN Val(cls.unique_headers) |->
                         get(hdr, key) = get(Val(cls.unique_headers), key)]
                ELSE <<TRUE>>)
    IN  all(<<IF cls.telescope # <<>> THEN contains(cls.telescope, telescope) ELSE TRUE,
              IF cls.origin # <<>> THEN cls.origin = origin ELSE TRUE,
              IF cls.instrument # <<>> THEN contains(cls.instrument, instrument) ELSE TRUE,
              unique_conds>>)

\* Swope.identifier
Swope_identifier(cls, telescope, origin, instrument, hdr) ==
    startswith(upper(telescope), cls.telescope) /\ get(hdr, "SITENAME") = Some(<<"L","C","O">>)

\* Swope_newheader.identifier
Swope_newheader_identifier(cls, telescope, origin, instrument, hdr) ==
    startswith(upper(telescope), <<"S","W","O">>) /\ origin = <<"z","i","g","g","y">>

\* Sofi.identifier
Sofi_identifier(cls, telescope, origin, instrument, hdr) ==
    instrument = cls.instrument /\ telescope \in {<<"E","S","O","-","N","T","T">>, <<"o","t","h","e","r">>}

\* inst_cls.identifier(...): the method the class resolves to
identifier(cls, telescope, origin, instrument, hdr) ==
    CASE cls.name = "Swope" -> Swope_identifier(cls, telescope, origin, instrument, hdr)
      [] cls.name = "Swope_newheader" ->
             Swope_newheader_identifier(cls, telescope, origin, instrument, hdr)
      [] cls.name = "Sofi" -> Sofi_identifier(cls, telescope, origin, instrument, hdr)
      [] OTHER -> Instrument_identifier(cls, telescope, origin, instrument, hdr)

\* the classes that inherit Instrument.identifier
UsesDefaultIdentifier(cls) == cls.name \notin {"Swope", "Swope_newheader", "Sofi"}

-----------------------------------------------------------------------------
(* Direct calls of identifier: every class, with arguments that stand in   *)
(* every relation to the class's own configuration (equal, containing it,  *)
(* a proper part of it, unrelated, empty).                                 *)

NoCall == args = None /\ ret = None

NoLoad ==
    /\ file = None /\ pc = "idle" /\ target_coord = None /\ handle = "closed"
    /\ idx = 0 /\ ext = 0 /\ mask = None /\ image = None /\ returned = None

StrInputs(configured) ==
    {<<>>, configured, <<"x">> \o configured \o <<" ","y">>,
     IF configured = <<>> THEN <<>> ELSE Tail(configured), <<"U","n","k","n","o","w","n">>}

\* headers over the class's unique_headers keys and SITENAME, each key absent,
\* holding the configured value, or holding another value
HdrInputs(cls) ==
    LET uh == IF IsNone(cls.unique_headers) THEN <<>> ELSE Val(cls.unique_headers)
        keys == DOMAIN uh \cup {"SITENAME"}
        right(key) == IF key \in DOMAIN uh THEN uh[key] ELSE <<"L","C","O">>
    IN  UNION {{[key \in present |-> IF pick[key] = "right" THEN right(key) ELSE <<"o","t","h","e","r">>] :
                    pick \in [present -> {"right", "wrong"}]} :
               present \in SUBSET keys}

IdentifierArgs ==
    UNION {[fn : {"identifier"}, cls : {c},
            telescope : StrInputs(instruments[c].telescope) \cup {<<"s","w","o","p","e">>, <<"E","S","O","-","N","T","T">>},
            origin : StrInputs(instruments[c].origin) \cup {<<"z","i","g","g","y">>},
            instrument : StrInputs(instruments[c].instrument) \cup {<<"S","O","F","I">>},
            hdr : HdrInputs(instruments[c])] : c \in DOMAIN instruments}

InitIdentifier == NoLoad /\ args \in {Some(a) : a \in IdentifierArgs} /\ ret = None

\* inst_cls.identifier(telescope, origin, instrument, hdr)
call_identifier ==
    /\ args # None /\ ret = None /\ Val(args).fn = "identifier"
    /\ ret' = Some(identifier(instruments[Val(args).cls], Val(args).telescope,
                              Val(args).origin, Val(args).instrument, Val(args).hdr))
    /\ UNCHANGED <<file, pc, target_coord, handle, idx, ext, mask, image, returned, args>>

NextIdentifier == call_identifier

SpecIdentifier == InitIdentifier /\ [][NextIdentifier]_vars

-----------------------------------------------------------------------------
(* Direct use of a FlowsImage: construction, then any sequence of          *)
(* update_mask, apply_edge_mask and create_masked_image.                   *)

MaxPixels == 3

\* the image shapes (rows, columns) of at most MaxPixels pixels
Shapes == {sh \in (1..MaxPixels) \X (1..MaxPixels) : sh[1] * sh[2] <= MaxPixels}

PixelInputs == {"0", "1", "nan", "inf"}

ImageInputs(sh) == [1..sh[1] -> [1..sh[2] -> PixelInputs]]

MaskInputs(sh) == [1..sh[1] -> [1..sh[2] -> BOOLEAN]]

\* the tuples of distinct zero-based indices below n, in increasing order
IndexTuples(n) ==
    {[i \in 1..Cardinality(S) |-> CHOOSE v \in S : Cardinality({w \in S : w < v}) = i - 1] :
        S \in SUBSET (0..(n - 1))}

InitImage ==
    /\ file = None /\ pc = "idle" /\ target_coord = None /\ handle = "closed"
    /\ idx = 0 /\ ext = 0 /\ mask = None /\ returned = None
    /\ NoCall
    /\ \E sh \in Shapes :
           \E img \in ImageInputs(sh), m \in {None} \cup {Some(m) : m \in MaskInputs(sh)} :
               image = Some(FlowsImage(img, <<>>, m))

\* image.update_mask(mask)
call_update_mask ==
    /\ \E m \in MaskInputs(Val(Val(image).shape)) :
           image' = Some(update_mask(Val(image), m))
    /\ UNCHANGED <<file, pc, target_coord, handle, idx, ext, mask, returned, args, ret>>

\* image.apply_edge_mask(y, x, apply_existing_mask_first)
call_apply_edge_mask ==
    /\ \E y \in {None} \cup {Some(t) : t \in IndexTuples(Val(Val(image).shape)[1])},
          x \in {None} \cup {Some(t) : t \in IndexTuples(Val(Val(image).shape)[2])},
          apply_existing_mask_first \in BOOLEAN :
           image' = Some(apply_edge_mask(Val(image), y, x, apply_existing_mask_first))
    /\ UNCHANGED <<file, pc, target_coord, handle, idx, ext, mask, returned, args, ret>>

\* image.create_masked_image()
call_create_masked_image ==
    /\ image' = Some(create_masked_image(Val(image)))
    /\ UNCHANGED <<file, pc, target_coord, handle, idx, ext, mask, returned, args, ret>>

NextImage == call_update_mask \/ call_apply_edge_mask \/ call_create_masked_image

SpecImage == InitImage /\ [][NextImage]_vars

-----------------------------------------------------------------------------
(* load_image, one action per statement.  `ret` holds the outcome of the   *)
(* running call while it leaves the `with` block: the container being      *)
(* returned or the exception propagating.                                  *)

\* hdr = hdul[ext].header with ext = 0
hdr == Val(file).primary.header

origin == get_default(hdr, "ORIGIN", <<>>)

telescope == get_default(hdr, "TELESCOP", <<>>)

instrument == get_default(hdr, "INSTRUME", <<>>)

\* inst_cls of the running iteration
inst_cls == instruments[idx]

shape_of(grid) == <<nrows(grid), ncols(grid)>>

\* an exception handled by going on with the next class of the registry
propagate_try_next(r) == ret' = ret /\ pc' = "identify" /\ idx' = idx + 1

\* an exception leaves load_image: nothing in it catches, so the loop is left too
propagate(r) == ret' = Some(r) /\ pc' = "exit" /\ idx' = idx

\* the statement completed: go on with the statement `to`
continue(to) == pc' = to /\ UNCHANGED <<ret, idx>>

\* the statements of process_image with the site resolved after the exposure time
process_image_order_site_late ==
    <<"peakmax", "exptime", "site", "obstime", "photfilter",
      "create_masked_image", "instrument_defaults">>

\* the statements of Instrument._get_clean_image and process_image, in order
process_image_order ==
    <<"peakmax", "site", "exptime", "obstime", "photfilter",
      "create_masked_image", "instrument_defaults">>

\* the statement that follows `step` in process_image
after(step) ==
    LET i == CHOOSE i \in DOMAIN process_image_order : process_image_order[i] = step
    IN  IF i < Len(process_image_order) THEN process_image_order[i + 1] ELSE "returned_clean"

\* load_image(filename, target_coord): enter the with block and read the header
call_load_image(tc) ==
    /\ pc = "idle" /\ args = None
    /\ target_coord' = tc
    /\ handle' = "open"
    /\ pc' = "identify" /\ idx' = 1 /\ ext' = 0
    /\ mask' = None /\ image' = None /\ ret' = None
    /\ UNCHANGED <<file, returned, args>>

\* the loop of load_image if a match were passed over while a later class
\* accepts the header too
identify_last_match ==
    /\ pc = "identify"
    /\ IF idx > Len(instruments)
       THEN propagate(Raise("RuntimeError: Could not determine origin of image"))
       ELSE IF /\ identifier(inst_cls, telescope, origin, instrument, hdr)
               /\ \A i \in (idx + 1)..Len(instruments) :
                      ~identifier(instruments[i], telescope, origin, instrument, hdr)
            THEN continue("get_ext")
            ELSE pc' = "identify" /\ idx' = idx + 1 /\ ret' = ret
    /\ UNCHANGED <<file, target_coord, handle, ext, mask, image, returned, args>>

\* one iteration of `for name, inst_cls in instruments.items()`, or the raise
\* after the loop
identify ==
    /\ pc = "identify"
    /\ IF idx > Len(instruments)
       THEN propagate(Raise("RuntimeError: Could not determine origin of image"))
       ELSE IF identifier(inst_cls, telescope, origin, instrument, hdr)
            THEN continue("get_ext")
            ELSE pc' = "identify" /\ idx' = idx + 1 /\ ret' = ret
    /\ UNCHANGED <<file, target_coord, handle, ext, mask, image, returned, args>>

\* ext = inst_cls.get_ext(hdul, target_coord)
step_get_ext ==
    /\ pc = "get_ext"
    /\ LET r == get_ext(inst_cls, Val(file), target_coord)
       IN  IF r.ok THEN ext' = r.v /\ continue("get_mask")
           ELSE ext' = ext /\ propagate(r)
    /\ UNCHANGED <<file, target_coord, handle, mask, image, returned, args>>

\* mask = inst_cls.get_mask(hdul)
step_get_mask ==
    /\ pc = "get_mask"
    /\ mask' = get_mask(inst_cls, Val(file))
    /\ continue("construct")
    /\ UNCHANGED <<file, target_coord, handle, ext, image, returned, args>>

\* image = FlowsImage(image=np.asarray(hdul[ext].data, dtype='float64'),
\*                    header=hdr, mask=mask)
step_construct ==
    /\ pc = "construct"
    /\ LET h == hdu(Val(file), ext)
       IN  IF ~h.ok THEN image' = image /\ propagate(h)
           ELSE IF ~IsNone(mask) /\ ~broadcasts(shape_of(h.v.data), shape_of(Val(mask)))
           THEN image' = image /\ propagate(Raise("ValueError"))
           ELSE image' = Some(FlowsImage(h.v.data, hdr, mask)) /\ continue("instantiate")
    /\ UNCHANGED <<file, target_coord, handle, ext, mask, returned, args>>

\* current_instrument = inst_cls(image)
step_instantiate ==
    /\ pc = "instantiate"
    /\ LET r == new_instrument(inst_cls, Val(image))
       IN  IF r.ok THEN image' = Some(r.v) /\ continue("peakmax")
           ELSE image' = image /\ propagate(r)
    /\ UNCHANGED <<file, target_coord, handle, ext, mask, returned, args>>

\* self.image.peakmax = self.peakmax
step_peakmax ==
    /\ pc = "peakmax"
    /\ image' = Some([Val(image) EXCEPT !.peakmax = inst_cls.peakmax])
    /\ continue(after("peakmax"))
    /\ UNCHANGED <<file, target_coord, handle, ext, mask, returned, args>>

\* self.image.site = self.get_site(); the site service may fail to answer
step_site ==
    /\ pc = "site"
    /\ \E answers \in BOOLEAN :
          LET r == IF answers THEN get_site(inst_cls, Val(image))
                   ELSE Raise("site service error")
          IN  IF r.ok THEN image' = Some([Val(image) EXCEPT !.site = r.v])
                           /\ continue(after("site"))
              ELSE image' = image /\ propagate(r)
    /\ UNCHANGED <<file, target_coord, handle, ext, mask, returned, args>>

\* self.image.exptime = self.get_exptime()
step_exptime ==
    /\ pc = "exptime"
    /\ LET r == get_exptime(inst_cls, Val(image))
       IN  IF r.ok THEN image' = Some([Val(image) EXCEPT !.exptime = Some(r.v)])
                        /\ continue(after("exptime"))
           ELSE image' = image /\ propagate(r)
    /\ UNCHANGED <<file, target_coord, handle, ext, mask, returned, args>>

\* self.image.obstime = self.get_obstime()
step_obstime ==
    /\ pc = "obstime"
    /\ LET r == get_obstime(inst_cls, Val(image))
       IN  IF r.ok THEN image' = Some([Val(image) EXCEPT !.obstime = Some(r.v)])
                        /\ continue(after("obstime"))
           ELSE image' = image /\ propagate(r)
    /\ UNCHANGED <<file, target_coord, handle, ext, mask, returned, args>>

\* self.image.photfilter = self.get_photfilter()
step_photfilter ==
    /\ pc = "photfilter"
    /\ LET r == get_photfilter(inst_cls, Val(image))
       IN  IF r.ok THEN image' = Some([Val(image) EXCEPT !.photfilter = Some(r.v)])
                        /\ continue(after("photfilter"))
           ELSE image' = image /\ propagate(r)
    /\ UNCHANGED <<file, target_coord, handle, ext, mask, returned, args>>

\* self.image.create_masked_image(): self.image[self.mask] needs equal shapes
step_create_masked_image ==
    /\ pc = "create_masked_image"
    /\ IF shape_of(Val(Val(image).mask)) # shape_of(Val(image).image)
       THEN image' = image /\ propagate(Raise("IndexError"))
       ELSE image' = Some(create_masked_image(Val(image)))
            /\ continue(after("create_masked_image"))
    /\ UNCHANGED <<file, target_coord, handle, ext, mask, returned, args>>

\* self.set_instrument_defaults(); return self.image
step_instrument_defaults ==
    /\ pc = "instrument_defaults"
    /\ image' = Some([Val(image) EXCEPT !.instrument_defaults = Some(InstrumentDefaults)])
    /\ continue(after("instrument_defaults"))
    /\ UNCHANGED <<file, target_coord, handle, ext, mask, returned, args>>

\* the correction if it were applied to HAWKI images only
step_barycentric_HAWKI_only ==
    /\ pc = "returned_clean"
    /\ IF ~IsNone(target_coord) /\ inst_cls.name = "HAWKI"
       THEN \E ephemeris \in BOOLEAN :
               LET r == IF ephemeris
                        THEN correct_barycentric(Val(Val(image).obstime), Val(target_coord))
                        ELSE Raise("ephemeris error")
               IN  IF r.ok THEN image' = Some([Val(image) EXCEPT !.obstime = Some(r.v)])
                                /\ continue("return")
                   ELSE image' = image /\ propagate(r)
       ELSE image' = image /\ continue("return")
    /\ UNCHANGED <<file, target_coord, handle, ext, mask, returned, args>>

\* if target_coord is not None:
\*     clean_image.obstime = correct_barycentric(clean_image.obstime, target_coord)
\* (the 'jpl' ephemeris may be unavailable)
step_barycentric ==
    /\ pc = "returned_clean"
    /\ IF ~IsNone(target_coord)
       THEN \E ephemeris \in BOOLEAN :
               LET r == IF ephemeris
                        THEN correct_barycentric(Val(Val(image).obstime), Val(target_coord))
                        ELSE Raise("ephemeris error")
               IN  IF r.ok THEN image' = Some([Val(image) EXCEPT !.obstime = Some(r.v)])
                                /\ continue("return")
                   ELSE image' = image /\ propagate(r)
       ELSE image' = image /\ continue("return")
    /\ UNCHANGED <<file, target_coord, handle, ext, mask, returned, args>>

\* return clean_image
step_return ==
    /\ pc = "return"
    /\ ret' = Some(Ok(Val(image))) /\ pc' = "exit"
    /\ UNCHANGED <<file, target_coord, handle, idx, ext, mask, image, returned, args>>

\* leaving load_image without the context manager: hdul.close() is never called
exit_handle_left_open ==
    /\ pc = "exit"
    /\ handle' = handle
    /\ returned' = Some([target_coord |-> target_coord, matched |-> idx,
                         outcome |-> Val(ret)])
    /\ pc' = "idle" /\ ret' = None
    /\ target_coord' = None /\ idx' = 0 /\ ext' = 0 /\ mask' = None /\ image' = None
    /\ UNCHANGED <<file, args>>

\* the with block is left (by return or by exception): the file is closed, the
\* caller gets the outcome and the locals of the call are gone
exit ==
    /\ pc = "exit"
    /\ handle' = "closed"
    /\ returned' = Some([target_coord |-> target_coord, matched |-> idx,
                         outcome |-> Val(ret)])
    /\ pc' = "idle" /\ ret' = None
    /\ target_coord' = None /\ idx' = 0 /\ ext' = 0 /\ mask' = None /\ image' = None
    /\ UNCHANGED <<file, args>>

-----------------------------------------------------------------------------
(* The files and targets load_image is run on.                             *)

\* a header that carries the identification of each registered class (for
\* AFOSC and Schmidt: the names their class bodies write down)
IdentOf ==
    [c \in {instruments[i].name : i \in DOMAIN instruments} |->
        CASE c = "LCOGT" -> ("ORIGIN" :> <<"L","C","O","G","T">>) @@ ("TELESCOP" :> <<"1","m","0","-","0","3">>)
          [] c = "HAWKI" -> ("TELESCOP" :> <<"E","S","O","-","V","L","T","-","U","4">>) @@ ("INSTRUME" :> <<"H","A","W","K","I">>)
                            @@ ("ORIGIN" :> <<"E","S","O","-","P","A","R","A","N","A","L">>)
                            @@ ("PRODCATG" :> <<"S","C","I","E","N","C","E",".","M","E","F","I","M","A","G","E">>)
          [] c = "ALFOSC" -> ("TELESCOP" :> <<"N","O","T">>) @@ ("INSTRUME" :> <<"A","L","F","O","S","C","_","F","A","S","U">>)
                             @@ ("OBS_MODE" :> <<"i","m","a","g","i","n","g">>)
          [] c = "NOTCAM" -> ("TELESCOP" :> <<"N","O","T">>) @@ ("INSTRUME" :> <<"N","O","T","C","A","M">>)
                             @@ ("OBS_MODE" :> <<"i","m","a","g","i","n","g">>)
          [] c = "PS1" -> ("FPA.TELESCOPE" :> <<"P","S","1">>) @@ ("FPA.INSTRUMENT" :> <<"G","P","C","1">>)
          [] c = "Liverpool" -> ("TELESCOP" :> <<"L","i","v","e","r","p","o","o","l"," ","T","e","l","e","s","c","o","p","e">>)
                                @@ ("INSTRUME" :> <<"I","O",":","O">>)
          [] c = "Omega2000" -> ("TELESCOP" :> <<"C","A"," ","3",".","5","m">>) @@ ("INSTRUME" :> <<"O","m","e","g","a","2","0","0","0">>)
          [] c = "Swope" -> ("TELESCOP" :> <<"S","W","O">>) @@ ("SITENAME" :> <<"L","C","O">>)
          [] c = "Swope_newheader" -> ("TELESCOP" :> <<"s","w","o","p","e">>) @@ ("ORIGIN" :> <<"z","i","g","g","y">>)
          [] c = "Dupont" -> ("TELESCOP" :> <<"D","U","P">>) @@ ("INSTRUME" :> <<"D","i","r","e","c","t","/","S","I","T","e","2","K","-","1">>)
                             @@ ("SITENAME" :> <<"L","C","O">>)
          [] c = "RetroCam" -> ("TELESCOP" :> <<"D","U","P">>) @@ ("INSTRUME" :> <<"R","e","t","r","o","C","a","m">>)
          [] c = "Baade" -> ("TELESCOP" :> <<"B","a","a","d","e">>) @@ ("INSTRUME" :> <<"F","o","u","r","S","t","a","r">>)
                            @@ ("SITENAME" :> <<"L","C","O">>)
          [] c = "Sofi" -> ("TELESCOP" :> <<"E","S","O","-","N","T","T">>) @@ ("INSTRUME" :> <<"S","O","F","I">>)
          [] c = "EFOSC" -> ("TELESCOP" :> <<"E","S","O","-","N","T","T">>) @@ ("INSTRUME" :> <<"E","F","O","S","C">>)
          [] c = "AstroNIRCam" -> ("TELESCOP" :> <<"S","A","I","-","2",".","5">>)
                                  @@ ("INSTRUME" :> <<"A","S","T","R","O","N","I","R","C","A","M">>)
          [] c = "OmegaCam" -> ("TELESCOP" :> <<"E","S","O","-","V","S","T">>) @@ ("INSTRUME" :> <<"O","M","E","G","A","C","A","M">>)
          [] c = "AndiCam" -> ("INSTRUME" :> <<"A","N","D","I","C","A","M","-","C","C","D">>) @@ ("OBSERVAT" :> <<"C","T","I","O">>)
          [] c = "PairTel" -> ("TELESCOP" :> <<"1",".","3","m"," ","P","A","I","R","I","T","E","L">>)
                              @@ ("INSTRUME" :> <<"2","M","A","S","S"," ","S","u","r","v","e","y"," ","c","a","m">>)
          [] c = "TJO_MEIA2" -> ("TELESCOP" :> <<"T","J","O">>) @@ ("INSTRUME" :> <<"M","E","I","A","2">>)
          [] c = "TJO_MEIA3" -> ("TELESCOP" :> <<"T","J","O">>) @@ ("INSTRUME" :> <<"M","E","I","A","3">>)
          [] c = "RATIR" -> ("TELESCOP" :> <<"O","A","N","/","S","P","M"," ","H","a","r","o","l","d"," ","L","."," ","J","o","h","n","s","o","n"," ","1",".","5","-","m","e","t","e","r">>)
          [] c = "Schmidt" -> ("TELESCOP" :> <<"6","7","/","9","1"," ","S","c","h","m","i","d","t"," ","T","e","l","e","s","c","o","p","e">>)
                              @@ ("INSTRUME" :> <<"M","o","r","a","v","i","a","n"," ","G","4","-","1","6","0","0","0","L","C">>)
                              @@ ("SITELAT" :> <<"4","5",".","8","4","9","4","4","4","4">>)
          [] c = "AFOSC" -> ("TELESCOP" :> <<"1",".","8","2","m"," ","R","e","f","l","e","c","t","o","r">>) @@ ("INSTRUME" :> <<"A","F","O","S","C">>)]

\* headers that satisfy the identifiers of several classes at once
OverlapIdents ==
    {("TELESCOP" :> <<"N","O","T">>) @@ ("INSTRUME" :> <<"A","L","F","O","S","C"," ","N","O","T","C","A","M">>) @@ ("OBS_MODE" :> <<"i","m","a","g","i","n","g">>),
     ("TELESCOP" :> <<"S","W","O">>) @@ ("SITENAME" :> <<"L","C","O">>) @@ ("ORIGIN" :> <<"z","i","g","g","y">>),
     ("TELESCOP" :> <<"D","U","P">>) @@ ("INSTRUME" :> <<"D","i","r","e","c","t","/","S","I","T","e","2","K","-","1"," ","R","e","t","r","o","C","a","m">>)
         @@ ("SITENAME" :> <<"L","C","O">>),
     ("TELESCOP" :> <<"T","J","O">>) @@ ("INSTRUME" :> <<"M","E","I","A","2"," ","M","E","I","A","3">>),
     ("TELESCOP" :> <<"L","i","v","e","r","p","o","o","l"," ","T","e","l","e","s","c","o","p","e">>) @@ ("INSTRUME" :> <<"O","M","E","G","A","C","A","M">>),
     ("ORIGIN" :> <<"L","C","O","G","T">>) @@ ("FPA.TELESCOPE" :> <<"P","S","1">>) @@ ("FPA.INSTRUMENT" :> <<"G","P","C","1">>),
     ("TELESCOP" :> <<"E","S","O","-","N","T","T">>) @@ ("INSTRUME" :> <<"S","O","F","I">>) @@ ("OBSERVAT" :> <<"C","T","I","O">>)}

\* the headers above, and headers of an instrument that no class names
IdentInputs ==
    {IdentOf[c] : c \in DOMAIN IdentOf} \cup OverlapIdents
    \cup {<<>>,
          ("TELESCOP" :> <<"U","n","k","n","o","w","n">>) @@ ("INSTRUME" :> <<"U","n","k","n","o","w","n">>)
              @@ ("ORIGIN" :> <<"U","n","k","n","o","w","n">>)}

\* the metadata keys the extraction rules read
MetaFull ==
    ("EXPTIME" :> 10) @@ ("NCOMBINE" :> 2) @@ ("JD" :> 100) @@ ("MJD-OBS" :> 100)
    @@ ("MJD-AVG" :> 105) @@ ("DATE-OBS" :> <<"T","1","0","0">>) @@ ("DATE-AVG" :> <<"T","1","0","5">>)
    @@ ("STRT_CPU" :> 100) @@ ("STOP_CPU" :> 110)
    @@ ("SITE" :> <<"c","o","j">>) @@ ("LATITUDE" :> 1) @@ ("LONGITUD" :> 2) @@ ("HEIGHT" :> 3)
    @@ ("FILTER" :> <<"r">>) @@ ("FILTER1" :> <<"S","D","S","S","-","R">>) @@ ("FPA.FILTER" :> <<"r",".","0","0","0","0","0">>)
    @@ ("ESO INS FILT1 NAME" :> <<"i","_","S","D","S","S">>) @@ ("CCDFLTID" :> <<"V">>)
    @@ ("HIERARCH ESO OCS DET1 IMGNAME" :> <<"H","A","W","K","I","_","A","u","t","o","J","i","t","t","e","r">>)

without(h, keys) == [k \in DOMAIN h \ keys |-> h[k]]

\* no FILTER keyword but the filter-wheel keywords, one wheel open
MetaWheels ==
    without(MetaFull, {"FILTER"})
    @@ ("ALFLTNM" :> <<"O","p","e","n">>) @@ ("FAFLTNM" :> <<"V","_","B","e","s"," ","5","3","0","_","8","0">>) @@ ("FBFLTNM" :> <<"O","p","e","n"," ">>)
    @@ ("NCFLTNM1" :> <<"K","s">>) @@ ("NCFLTNM2" :> <<"O","p","e","n">>)
    @@ ("ESO INS FILT1 ID" :> <<"K","s">>) @@ ("ESO INS FILT2 ID" :> <<"o","p","e","n">>)

MetaInputs ==
    {MetaFull, MetaWheels,
     MetaFull @@ ("TMID" :> 105) @@ ("MIDPOINT" :> <<"T","1","0","5">>) @@ ("FULL_EXP" :> 20),
     without(MetaFull, {"EXPTIME"}),
     without(MetaFull, {"JD", "MJD-OBS", "MJD-AVG", "DATE-OBS", "DATE-AVG", "STRT_CPU"}),
     [MetaFull EXCEPT !["HIERARCH ESO OCS DET1 IMGNAME"] = <<"H","A","W","K","I","_","O","t","h","e","r">>,
                      !["SITE"] = <<"x","y","z">>, !["FILTER"] = <<"g","-","s","l","o","a","n">>]}

\* the four chips of a mosaic: 2 x 2 pixels each, side by side on the sky
Chips ==
    [k \in 1..4 |->
        [header |-> ("NAXIS1" :> 2) @@ ("NAXIS2" :> 2)
                    @@ ("CRVAL1" :> (IF k \in {2, 4} THEN 4 ELSE 0))
                    @@ ("CRVAL2" :> (IF k \in {3, 4} THEN 4 ELSE 0)),
         data |-> <<<<"1", "nan">>, <<"inf", "0">>>>]]

PrimaryData == <<<<"1", "nan", "0">>>>

FitsFile(header, data, extensions, bpm) ==
    [primary |-> [header |-> header, data |-> data], extensions |-> extensions, bpm |-> bpm]

FileInputs ==
    {FitsFile(i @@ m, PrimaryData, Chips, None) : i \in IdentInputs, m \in MetaInputs}
    \cup {FitsFile(IdentOf["LCOGT"] @@ MetaFull, PrimaryData, <<>>, Some(b)) :
             b \in {<<<<0, 3, 0>>>>, <<<<2, 0, 0>>>>, <<<<0, 1>>>>, <<<<1>>>>, <<<<0, 0, 1>>, <<1, 0, 0>>>>}}
    \cup {FitsFile(IdentOf["HAWKI"] @@ MetaFull, PrimaryData, e, None) :
             e \in {<<>>, SubSeq(Chips, 1, 2),
                    [Chips EXCEPT ![2].header = without(@, {"NAXIS1"})]}}
    \cup {FitsFile(IdentOf["HAWKI"], PrimaryData, Chips, None)}

\* no target, a target on chip 3 only, one off the mosaic, and an (ra, dec)
\* pair given as a plain tuple
TargetInputs ==
    {None, Some(SkyCoord(1, 5)), Some(SkyCoord(20, 20)),
     Some([type |-> "tuple", items |-> <<5, 1>>])}

Init ==
    /\ file \in {Some(f) : f \in FileInputs}
    /\ pc = "idle" /\ target_coord = None /\ handle = "closed"
    /\ idx = 0 /\ ext = 0 /\ mask = None /\ image = None /\ returned = None
    /\ NoCall

Next ==
    \/ \E tc \in TargetInputs : call_load_image(tc)
    \/ identify
    \/ step_get_ext
    \/ step_get_mask
    \/ step_construct
    \/ step_instantiate
    \/ step_peakmax
    \/ step_site
    \/ step_exptime
    \/ step_obstime
    \/ step_photfilter
    \/ step_create_masked_image
    \/ step_instrument_defaults
    \/ step_barycentric
    \/ step_return
    \/ exit

Spec == Init /\ [][Next]_vars

\* the statements of a running call
Run == pc # "idle" /\ Next

\* One call of load_image, on any file and target.  load_image is straight-line
\* code: once called, it goes on running until it has left the with block (no
\* statement of it blocks forever); nothing makes a caller call it.
SpecLive ==
    /\ Init
    /\ [][\/ returned = None /\ \E tc \in TargetInputs : call_load_image(tc)
          \/ identify
          \/ step_get_ext \/ step_get_mask \/ step_construct \/ step_instantiate
          \/ step_peakmax \/ step_site \/ step_exptime \/ step_obstime
          \/ step_photfilter \/ step_create_masked_image \/ step_instrument_defaults
          \/ step_barycentric \/ step_return
          \/ exit]_vars
    /\ WF_vars(Run)

-----------------------------------------------------------------------------
(* Direct calls of HAWKI.get_ext on mosaics of four extensions.            *)

SkyMax == 8

\* four extensions of <<NAXIS1, NAXIS2>> = n, the reference point of extension k
\* at at[k]
HdulInputs ==
    {FitsFile(<<>>, PrimaryData,
              [k \in 1..4 |->
                  [header |-> ("NAXIS1" :> n[1]) @@ ("NAXIS2" :> n[2])
                              @@ ("CRVAL1" :> at[k][1]) @@ ("CRVAL2" :> at[k][2]),
                   data |-> PrimaryData]],
              None) : n \in {<<2, 2>>, <<2, 1>>, <<1, 2>>},
                      at \in [1..4 -> {<<0, 0>>, <<4, 0>>, <<0, 4>>}]}

\* targets: none, sky positions (in half pixels) around and on the mosaic, and
\* plain tuples of one, two and three numbers
GetExtArgs ==
    [fn : {"get_ext"}, hdul : HdulInputs,
     target_coords :
         {None}
         \cup {Some(SkyCoord(ra, dec)) : ra \in -2..SkyMax, dec \in -2..SkyMax}
         \cup {Some([type |-> "tuple", items |-> t]) : t \in {<<1, 5>>, <<5>>, <<1, 5, 0>>}},
     fallback_extension : {None, Some(0), Some(2)}]

InitExt == NoLoad /\ args \in {Some(a) : a \in GetExtArgs} /\ ret = None

\* HAWKI.get_ext(hdul, target_coords, fallback_extension)
call_get_ext ==
    /\ args # None /\ ret = None /\ Val(args).fn = "get_ext"
    /\ ret' = Some(HAWKI_get_ext(Val(args).hdul, Val(args).target_coords,
                                 Val(args).fallback_extension))
    /\ UNCHANGED <<file, pc, target_coord, handle, idx, ext, mask, image, returned, args>>

NextExt == call_get_ext

SpecExt == InitExt /\ [][NextExt]_vars

-----------------------------------------------------------------------------
(* Direct calls of get_photfilter on ALFOSC, NOTCAM and Sofi images whose   *)
(* header holds any combination of the class's alternate filter keys.      *)

\* each alternate key is absent or holds an empty, blank, 'open' (in several
\* spellings), or filter-name value; FILTER is absent or present
FilterArgs ==
    LET keys == [ALFOSC |-> <<"ALFLTNM", "FAFLTNM", "FBFLTNM">>,
                 NOTCAM |-> <<"NCFLTNM1", "NCFLTNM2">>,
                 Sofi |-> <<"ESO INS FILT1 ID", "ESO INS FILT2 ID">>]
        values == {<<>>, <<" ">>, <<"O","p","e","n">>, <<" ","o","p","e","n">>, <<"K","s">>, <<"J"," ">>, <<"V","_","B","e","s"," ","5","3","0","_","8","0">>}
        range(t) == {t[i] : i \in DOMAIN t}
        headers(ks) == UNION {[present -> values] : present \in SUBSET ks}
    IN  {[fn |-> "get_photfilter", cls |-> c, header |-> h @@ f] :
            c \in {i \in DOMAIN instruments : instruments[i].name \in DOMAIN keys},
            h \in UNION {headers(range(keys[n])) : n \in DOMAIN keys},
            f \in {<<>>, "FILTER" :> <<"K","s">>}}

InitFilter == NoLoad /\ args \in {Some(a) : a \in FilterArgs} /\ ret = None

\* cls(image).get_photfilter()
call_get_photfilter ==
    /\ args # None /\ ret = None /\ Val(args).fn = "get_photfilter"
    /\ ret' = Some(get_photfilter(instruments[Val(args).cls],
                                  FlowsImage(PrimaryData, Val(args).header, None)))
    /\ UNCHANGED <<file, pc, target_coord, handle, idx, ext, mask, image, returned, args>>

SpecFilter == InitFilter /\ [][call_get_photfilter]_vars

-----------------------------------------------------------------------------
(* Direct calls of FlowsImage.get_edge_mask: on every grid of 0 and 1       *)
(* pixels of up to MaxArea pixels, and on larger grids made of a frame of   *)
(* 0 pixels (of any width, also none, on each side) around other pixels.    *)

MaxSide == 5

MaxArea == 12

InitEdge ==
    /\ NoLoad /\ ret = None
    /\ \E H \in 1..MaxSide, W \in 1..MaxSide, value \in {"0", "1", "nan"} :
           \/ /\ H * W <= MaxArea
              /\ \E img \in [1..H -> [1..W -> {"0", "1"}]] :
                     args = Some([fn |-> "get_edge_mask", img |-> img, value |-> value])
           \/ \E top \in 0..(H - 1), left \in 0..(W - 1),
                 fill \in {<<"1", "1">>, <<"1", "nan">>, <<"2", "inf">>} :
                  \E bottom \in 0..(H - 1 - top), right \in 0..(W - 1 - left) :
                      args = Some([fn |-> "get_edge_mask", value |-> value,
                                   img |-> [r \in 1..H |-> [c \in 1..W |->
                                       IF \/ r <= top \/ r > H - bottom
                                          \/ c <= left \/ c > W - right
                                       THEN "0" ELSE fill[((r + c) % 2) + 1]]]])

\* FlowsImage.get_edge_mask(img, value)
call_get_edge_mask ==
    /\ args # None /\ ret = None /\ Val(args).fn = "get_edge_mask"
    /\ ret' = Some(get_edge_mask(Val(args).img, Val(args).value))
    /\ UNCHANGED <<file, pc, target_coord, handle, idx, ext, mask, image, returned, args>>

SpecEdge == InitEdge /\ [][call_get_edge_mask]_vars

-----------------------------------------------------------------------------
(* Claims *)

\* the statements of load_image that run for the matched class
PostMatch ==
    {"get_ext", "get_mask", "construct", "instantiate", "peakmax", "site", "exptime",
     "obstime", "photfilter", "create_masked_image", "instrument_defaults",
     "returned_clean", "return"}

\* the registry positions whose identifier accepts the primary header of the file
Matching ==
    {i \in DOMAIN instruments :
        identifier(instruments[i], telescope, origin, instrument, hdr)}

\* C1: while load_image runs the steps that follow the match (extension, mask,
\* construction, instantiation, metadata, return), the class it works with is
\* the earliest-registered class whose identifier accepts the primary header,
\* also when several classes accept it, and it never moves on to a later class;
\* the outcome it hands over is that class's.
C1_FirstMatchWins ==
    [][/\ pc \in PostMatch =>
              /\ idx \in Matching /\ \A i \in Matching : idx <= i
              /\ idx' = idx
       /\ (pc = "exit" /\ Val(ret).ok) =>
              /\ Val(returned').matched \in Matching
              /\ \A i \in Matching : Val(returned').matched <= i]_vars

\* C1 witness: a header that ALFOSC and NOTCAM both accept is being processed
\* with ALFOSC's rules
C1_Witness ==
    /\ pc = "photfilter" /\ inst_cls.name = "ALFOSC"
    /\ \E i \in Matching : instruments[i].name = "NOTCAM"

\* C2: for every class that uses the default identifier and every (telescope,
\* origin, instrument, header), identifier returns true exactly when the class's
\* telescope is empty or a substring of the file's telescope, its origin is empty
\* or equal to the file's origin, its instrument is empty or a substring of the
\* file's instrument, and it has no unique_headers or every key of them is present
\* in the header with the configured value.
C2_DefaultIdentifierIff ==
    (ret # None /\ Val(args).fn = "identifier"
                /\ UsesDefaultIdentifier(instruments[Val(args).cls])) =>
        LET a == Val(args)
            V == instruments[a.cls]
            IsPartOf(sub, s) ==
                \E pre, post \in 0..Len(s) :
                    /\ pre + Len(sub) + post = Len(s)
                    /\ \A k \in 1..Len(sub) : s[pre + k] = sub[k]
        IN  Val(ret) <=>
                /\ V.telescope = <<>> \/ IsPartOf(V.telescope, a.telescope)
                /\ V.origin = <<>> \/ V.origin = a.origin
                /\ V.instrument = <<>> \/ IsPartOf(V.instrument, a.instrument)
                /\ \/ V.unique_headers = None
                   \/ \A key \in DOMAIN Val(V.unique_headers) :
                          key \in DOMAIN a.hdr /\ a.hdr[key] = Val(V.unique_headers)[key]

\* C2 witness: HAWKI, which configures all four criteria, accepted a header
C2_Witness ==
    /\ ret = Some(TRUE) /\ Val(args).fn = "identifier"
    /\ instruments[Val(args).cls].name = "HAWKI"
    /\ Val(args).telescope # HAWKI.telescope

\* C3: in every state reached by constructing a FlowsImage and applying
\* update_mask, apply_edge_mask and create_masked_image in any order, every
\* non-finite pixel is marked in the mask.
C3_NonFiniteMasked ==
    image # None =>
        \A r \in DOMAIN Val(image).image : \A c \in DOMAIN Val(image).image[r] :
            ~isfinite(Val(image).image[r][c]) => Val(Val(image).mask)[r][c]

\* the registry positions that some input file reaches: its header is accepted
\* by the class at that position and by none registered before it
ReachableVariants ==
    {v \in DOMAIN instruments :
        \E f \in FileInputs :
            LET h == f.primary.header
                t == get_default(h, "TELESCOP", <<>>)
                o == get_default(h, "ORIGIN", <<>>)
                n == get_default(h, "INSTRUME", <<>>)
            IN  /\ identifier(instruments[v], t, o, n, h)
                /\ \A b \in 1..(v - 1) : ~identifier(instruments[b], t, o, n, h)}

\* C4: every class of the registry has a header that its identifier accepts and
\* that the identifier of every class registered before it rejects, and
\* load_image, given such a header, works with that class.
C4_EveryVariantReachable ==
    /\ ReachableVariants = DOMAIN instruments
    /\ pc \in PostMatch =>
           /\ identifier(inst_cls, telescope, origin, instrument, hdr)
           /\ \A b \in 1..(idx - 1) :
                  ~identifier(instruments[b], telescope, origin, instrument, hdr)

\* C4 witness: load_image returned a container made by Swope_newheader, which is
\* registered right after the class it inherits from
C4_Witness ==
    /\ returned # None /\ Val(returned).outcome.ok
    /\ instruments[Val(returned).matched].name = "Swope_newheader"

\* the criteria a class body writes down: AFOSC and Schmidt write their
\* telescope and instrument as annotations
declared(cls) ==
    CASE cls.name = "AFOSC" ->
             [cls EXCEPT !.telescope = <<"1",".","8","2","m"," ","R","e","f","l","e","c","t","o","r">>, !.instrument = <<"A","F","O","S","C">>]
      [] cls.name = "Schmidt" ->
             [cls EXCEPT !.telescope = <<"6","7","/","9","1"," ","S","c","h","m","i","d","t"," ","T","e","l","e","s","c","o","p","e">>,
                         !.instrument = <<"M","o","r","a","v","i","a","n"," ","G","4","-","1","6","0","0","0","L","C">>]
      [] OTHER -> cls

\* C5: a load_image call on a file whose header meets the telescope, origin,
\* instrument and unique-header criteria of no registered class ends with the
\* RuntimeError 'Could not determine origin of image'.
C5_NoMatchRaises ==
    (/\ returned # None
     /\ \A i \in DOMAIN instruments :
            ~identifier(declared(instruments[i]), telescope, origin, instrument, hdr)) =>
        /\ ~Val(returned).outcome.ok
        /\ Val(returned).outcome.exc = "RuntimeError: Could not determine origin of image"

\* C6: after the match, a step that fails (extension search, construction,
\* instantiation, site, exptime, obstime, photfilter, masked image, time
\* correction) ends the call with that exception as its outcome and without a
\* container; the loader never goes back to the registry loop or to a step it
\* has run, and the caller gets one outcome per call, handed over when the call
\* ends: a container only if every step succeeded.
C6_FailurePropagates ==
    [][LET order == <<"identify", "get_ext", "get_mask", "construct", "instantiate",
                      "peakmax", "site", "exptime", "obstime", "photfilter",
                      "create_masked_image", "instrument_defaults", "returned_clean",
                      "return", "exit", "idle">>
           rank(p) == CHOOSE i \in DOMAIN order : order[i] = p
           failed(r) == ~r.ok => (pc' = "exit" /\ ret' = Some(r))
       IN  /\ pc \in PostMatch => (idx' = idx /\ rank(pc') > rank(pc))
           /\ pc = "get_ext" => failed(get_ext(inst_cls, Val(file), target_coord))
           /\ pc = "instantiate" => failed(new_instrument(inst_cls, Val(image)))
           /\ pc = "exptime" => failed(get_exptime(inst_cls, Val(image)))
           /\ pc = "obstime" => failed(get_obstime(inst_cls, Val(image)))
           /\ pc = "photfilter" => failed(get_photfilter(inst_cls, Val(image)))
           /\ (ret' # ret /\ ret' # None /\ pc # "return") =>
                  (~Val(ret').ok /\ pc' = "exit" /\ image' = image)
           /\ pc = "exit" => (pc' = "idle" /\ Val(returned').outcome = Val(ret))
           /\ returned' # returned => pc = "exit"
           /\ (returned' # None /\ Val(returned').outcome.ok) =>
                  /\ Val(returned').outcome.v.instrument_defaults # None
                  /\ Val(returned').outcome.v.clean # None
           /\ (returned' # None /\ ~Val(returned').outcome.ok) =>
                  DOMAIN Val(returned').outcome = {"ok", "exc"}]_vars

\* C6 witness: HAWKI was matched, its instantiation failed on the OB type, and
\* the caller got that exception
C6_Witness ==
    /\ returned # None /\ ~Val(returned).outcome.ok
    /\ instruments[Val(returned).matched].name = "HAWKI"
    /\ Val(returned).outcome.exc = "RuntimeError: Image OB Type not AutoJitter or FixedOffset"

\* C7: process_image runs peakmax, site, exptime, obstime, photfilter,
\* create_masked_image, instrument_defaults in this order, each step filling its
\* own field only; site and exptime are set when get_obstime runs; a step that
\* raises ends the sequence with the container as it was, so no field of a later
\* step is ever set before the field of an earlier one.
C7_ProcessImageOrder ==
    [][LET order == <<"peakmax", "site", "exptime", "obstime", "photfilter",
                      "create_masked_image", "instrument_defaults">>
           fills(i) ==
               IF order[i] = "create_masked_image"
               THEN /\ Val(image').clean # None
                    /\ Val(image') = [Val(image) EXCEPT !.image = Val(image').image,
                                                        !.clean = Val(image').clean]
               ELSE Val(image') = [Val(image) EXCEPT ![order[i]] = Val(image')[order[i]]]
           img == Val(image)
       IN  /\ \A i \in DOMAIN order :
                  pc = order[i] =>
                      \/ /\ pc' = (IF i < Len(order) THEN order[i + 1] ELSE "returned_clean")
                         /\ fills(i)
                      \/ pc' = "exit" /\ ~Val(ret').ok /\ image' = image
           /\ pc = "peakmax" =>
                  \A i \in 2..Len(order) :
                      order[i] # "create_masked_image" => img[order[i]] = None
           /\ pc = "obstime" => (img.site # None /\ img.exptime # None)
           /\ image # None =>
                  /\ img.exptime # None => img.site # None
                  /\ img.obstime # None => img.exptime # None
                  /\ img.photfilter # None => img.obstime # None
                  /\ img.clean # None => img.photfilter # None
                  /\ img.instrument_defaults # None => img.clean # None]_vars

\* C7 witness: HAWKI's get_obstime has run and used the exposure time and the
\* site set by the steps before it
C7_Witness ==
    /\ pc = "photfilter" /\ inst_cls.name = "HAWKI"
    /\ Val(Val(image).obstime).plus_half_seconds = Val(Val(image).exptime)
    /\ Val(Val(image).obstime).location = Val(Val(image).site).EarthLocation

C9_TargetIgnored ==
    [][(/\ pc = "exit" /\ returned # None
        /\ inst_cls.name # "HAWKI"
        /\ (Val(returned).target_coord = None) # (target_coord = None)
        /\ Val(returned).outcome.ok /\ Val(ret).ok) =>
           Val(returned').outcome.v = Val(returned).outcome.v]_vars

\* whether the target of a direct get_ext call lies on extension k: its pixel
\* position (x, y) has -0.5 <= x <= NAXIS1 - 0.5 and -0.5 <= y <= NAXIS2 - 0.5
\* (positions are counted in half pixels)
Inside(a, k) ==
    LET t == Val(a.target_coords)
        ra == IF t.type = "SkyCoord" THEN t.ra ELSE t.items[1]
        dec == IF t.type = "SkyCoord" THEN t.dec ELSE t.items[2]
        h == a.hdul.extensions[k].header
    IN  /\ -1 <= ra - h.CRVAL1 /\ ra - h.CRVAL1 <= 2 * h.NAXIS1 - 1
        /\ -1 <= dec - h.CRVAL2 /\ dec - h.CRVAL2 <= 2 * h.NAXIS2 - 1

\* C10: HAWKI.get_ext raises ValueError when the target is None or is neither a
\* SkyCoord nor a pair; otherwise it returns the lowest k in 1..4 whose
\* extension contains the target's pixel position with the half-pixel margin;
\* when no extension contains it, it returns the fallback extension if one was
\* given and raises RuntimeError if not.
C10_GetExt ==
    (args # None /\ ret # None /\ Val(args).fn = "get_ext") =>
        LET a == Val(args)
            r == Val(ret)
            valid == /\ a.target_coords # None
                     /\ \/ Val(a.target_coords).type = "SkyCoord"
                        \/ Len(Val(a.target_coords).items) = 2
        IN  IF ~valid THEN ~r.ok /\ r.exc = "ValueError"
            ELSE IF \E k \in 1..4 : Inside(a, k)
            THEN /\ r.ok /\ r.v \in 1..4 /\ Inside(a, r.v)
                 /\ \A j \in 1..(r.v - 1) : ~Inside(a, j)
            ELSE IF a.fallback_extension # None
            THEN r.ok /\ r.v = Val(a.fallback_extension)
            ELSE /\ ~r.ok
                 /\ r.exc = "RuntimeError: Could not find image extension that target is on!"

\* C10 witness: the target lies on the edge margin of extension 3 and on no
\* other extension, and get_ext gave 3
C10_Witness ==
    /\ args # None /\ Val(args).fn = "get_ext" /\ ret = Some(Ok(3))
    /\ Val(args).target_coords = Some(SkyCoord(-1, 5))
    /\ \A k \in {1, 2, 4} : ~Inside(Val(args), k)

\* the alternate filter keys of the class of a direct get_photfilter call
AlternateKeys(a) ==
    CASE instruments[a.cls].name = "ALFOSC" -> {"ALFLTNM", "FAFLTNM", "FBFLTNM"}
      [] instruments[a.cls].name = "NOTCAM" -> {"NCFLTNM1", "NCFLTNM2"}
      [] instruments[a.cls].name = "Sofi" -> {"ESO INS FILT1 ID", "ESO INS FILT2 ID"}

\* the alternate keys of the call's header that hold a non-empty value other
\* than 'open'
Plausible(a) ==
    {k \in AlternateKeys(a) \cap DOMAIN a.header :
        a.header[k] # <<>> /\ lower(strip(a.header[k])) # <<"o","p","e","n">>}

\* C11: on ALFOSC, NOTCAM and Sofi headers without FILTER, whichever alternate
\* keys are present and whatever they hold, get_photfilter returns the label of
\* the one alternate key holding a non-empty value other than 'open' (translated
\* by the class's table, else as it is), and raises RuntimeError 'Could not
\* determine filter used.' when no key or more than one key holds such a value.
C11_AlternateFilterKeys ==
    (/\ args # None /\ ret # None /\ Val(args).fn = "get_photfilter"
     /\ "FILTER" \notin DOMAIN Val(args).header) =>
        LET a == Val(args)
            r == Val(ret)
            label == strip(a.header[CHOOSE k \in Plausible(a) : TRUE])
            table ==
                IF instruments[a.cls].name = "ALFOSC"
                THEN (<<"B","_","B","e","s"," ","4","4","0","_","1","0","0">> :> <<"B">>) @@ (<<"V","_","B","e","s"," ","5","3","0","_","8","0">> :> <<"V">>)
                     @@ (<<"R","_","B","e","s"," ","6","5","0","_","1","3","0">> :> <<"R">>) @@ (<<"g","'","_","S","D","S","S"," ","4","8","0","_","1","4","5">> :> <<"g","p">>)
                     @@ (<<"r","'","_","S","D","S","S"," ","6","1","8","_","1","4","8">> :> <<"r","p">>) @@ (<<"i","'","_","S","D","S","S"," ","7","7","1","_","1","7","1">> :> <<"i","p">>)
                     @@ (<<"i","_","i","n","t"," ","7","9","7","_","1","5","7">> :> <<"i","p">>) @@ (<<"z","'","_","S","D","S","S"," ","8","3","2","_","L","P">> :> <<"z","p">>)
                ELSE <<"K","s">> :> <<"K">>
        IN  IF Cardinality(Plausible(a)) = 1
            THEN r.ok /\ r.v = (IF label \in DOMAIN table THEN table[label] ELSE label)
            ELSE ~r.ok /\ r.exc = "RuntimeError: Could not determine filter used."

\* the header key holding the start of the exposure, for the classes whose
\* get_obstime adds half the exposure time
StartKey(name) ==
    CASE name \in {"LCOGT", "HAWKI", "Liverpool", "EFOSC", "AFOSC", "Schmidt"} -> "DATE-OBS"
      [] name \in {"Omega2000", "Swope_newheader", "OmegaCam", "Sofi"} -> "MJD-OBS"
      [] name \in {"AndiCam", "TJO_MEIA2", "TJO_MEIA3"} -> "JD"

\* the header key holding the middle of the exposure, for the classes whose
\* get_obstime adds nothing
MidKey(name, h) ==
    CASE name \in {"ALFOSC", "NOTCAM"} -> "DATE-AVG"
      [] name = "Sofi" -> "TMID"
      [] name = "AstroNIRCam" -> IF "MIDPOINT" \in DOMAIN h THEN "MIDPOINT" ELSE "MJD-AVG"

\* C12: between get_obstime and the time correction, the stored obstime of
\* LCOGT, HAWKI, Liverpool, Omega2000, Swope_newheader, EFOSC, OmegaCam,
\* AndiCam, TJO_MEIA2, TJO_MEIA3, AFOSC, Schmidt, and of Sofi without TMID, is
\* the header's start time plus half of the stored exptime, which is what
\* get_exptime gives; the stored obstime of ALFOSC, NOTCAM, AstroNIRCam and of
\* Sofi with TMID is the header's midpoint time with nothing added.
C12_ObstimeMidExposure ==
    (/\ pc \in {"photfilter", "create_masked_image", "instrument_defaults", "returned_clean"}
     /\ image # None) =>
        LET img == Val(image)
            h == img.header
            o == Val(img.obstime)
            name == inst_cls.name
        IN  /\ img.obstime # None /\ img.exptime # None
            /\ img.exptime = Some(get_exptime(inst_cls, img).v)
            /\ (\/ name \in {"LCOGT", "HAWKI", "Liverpool", "Omega2000", "Swope_newheader",
                             "EFOSC", "OmegaCam", "AndiCam", "TJO_MEIA2", "TJO_MEIA3",
                             "AFOSC", "Schmidt"}
                \/ name = "Sofi" /\ "TMID" \notin DOMAIN h) =>
                   /\ o.val = h[StartKey(name)]
                   /\ o.plus_half_seconds = Val(img.exptime)
            /\ (\/ name \in {"ALFOSC", "NOTCAM", "AstroNIRCam"}
                \/ name = "Sofi" /\ "TMID" \in DOMAIN h) =>
                   /\ o.val = h[MidKey(name, h)]
                   /\ o.plus_half_seconds = 0

\* C12 witness: a Swope_newheader file with MJD-OBS 100 and EXPTIME 10 is past
\* get_obstime, which stored 100 plus half of 10 seconds
C12_Witness ==
    /\ pc = "photfilter" /\ inst_cls.name = "Swope_newheader"
    /\ Val(Val(image).exptime) = 10
    /\ Val(Val(image).obstime).plus_half_seconds = 10
    /\ Val(Val(image).obstime).val = 100

\* C13: the file is open exactly while load_image runs; a running call, at
\* whichever statement it is (the registry loop, get_ext, get_mask, the
\* construction, the instantiation, a step of process_image, the time
\* correction, the return, or on its way out with an exception), eventually
\* has the file closed; and an outcome, container or exception, reaches the
\* caller only together with the closing of the file.
C13_HandleEventuallyClosed ==
    /\ [](handle = "open" <=> pc # "idle")
    /\ (handle = "open") ~> (handle = "closed")
    /\ [][returned' # returned => (handle = "open" /\ handle' = "closed")]_vars

\* C13 witness: a call that failed in HAWKI's extension search has ended and
\* the file is closed
C13_Witness ==
    /\ handle = "closed" /\ pc = "idle" /\ returned # None
    /\ ~Val(returned).outcome.ok
    /\ Val(returned).outcome.exc = "RuntimeError: Could not find image extension that target is on!"

\* C14: in the container load_image returns, the mask has the shape of the
\* loaded pixel grid and is true exactly at the positions that the matched
\* class's get_mask marks (none when it gives None) or whose loaded pixel
\* value, as read from the chosen extension of the file, is non-finite.
C14_ReturnedMaskIsUnion ==
    (pc = "exit" /\ Val(ret).ok) =>
        LET container == Val(ret).v
            loaded == hdu(Val(file), ext).v.data
            instrument_mask == get_mask(inst_cls, Val(file))
            m == Val(container.mask)
        IN  /\ DOMAIN m = DOMAIN loaded
            /\ \A r \in DOMAIN loaded :
                   /\ DOMAIN m[r] = DOMAIN loaded[r]
                   /\ \A c \in DOMAIN loaded[r] :
                          m[r][c] <=> \/ /\ instrument_mask # None
                                         /\ Val(instrument_mask)[r][c]
                                      \/ loaded[r][c] \in {"nan", "inf"}

\* C14 witness: an LCOGT file with pixels 1, nan, 0 and a BPM extension marking
\* the first pixel is returned with the first two positions masked
C14_Witness ==
    /\ pc = "exit" /\ Val(ret).ok /\ inst_cls.name = "LCOGT"
    /\ Val(file).bpm = Some(<<<<2, 0, 0>>>>)
    /\ Val(file).primary.data = <<<<"1", "nan", "0">>>>
    /\ Val(ret).v.mask = Some(<<<<TRUE, TRUE, FALSE>>>>)

\* C15: whenever create_masked_image is called, calling it again on the result
\* changes nothing: pixel grid, mask and clean view stay as the first call left
\* them, which is NaN at the masked positions and the value from before the
\* first call at the unmasked ones, in the grid and in the view alike.
C15_CreateMaskedImageIdempotent ==
    [][(image # None /\ image' = Some(create_masked_image(Val(image)))) =>
           LET before == Val(image)
               once == Val(image')
               twice == create_masked_image(once)
               m == Val(once.mask)
           IN  /\ twice = once
               /\ twice.image = once.image /\ twice.mask = once.mask
               /\ twice.clean = once.clean
               /\ once.mask = before.mask
               /\ once.clean # None /\ Val(once.clean).mask = m
               /\ \A r \in DOMAIN once.image : \A c \in DOMAIN once.image[r] :
                      LET expected == IF m[r][c] THEN NaN ELSE before.image[r][c]
                      IN  /\ once.image[r][c] = expected
                          /\ Val(once.clean).data[r][c] = expected]_vars

\* C15 witness: create_masked_image has run on pixels whose first one is masked
\* although finite in the file, and running it again would give this same state
C15_Witness ==
    /\ image # None /\ Val(image).clean # None
    /\ Val(image).mask = Some(<<<<TRUE, FALSE, FALSE>>>>)
    /\ Val(image).image = <<<<"nan", "1", "0">>>>
    /\ Val(image).clean = Some(masked_array(Val(image).image, Val(Val(image).mask)))
    /\ create_masked_image(Val(image)) = Val(image)

\* whether the grid is a frame of 0 pixels, `top` rows, `bottom` rows, `left`
\* columns and `right` columns wide (each at least 1), around a non-empty
\* interior without a 0 pixel
Framed(img, top, bottom, left, right) ==
    LET H == Len(img)
        W == Len(img[1])
    IN  /\ top >= 1 /\ bottom >= 1 /\ left >= 1 /\ right >= 1
        /\ top + bottom < H /\ left + right < W
        /\ \A r \in 1..H : \A c \in 1..W :
               (r <= top \/ r > H - bottom \/ c <= left \/ c > W - right)
                   <=> img[r][c] = "0"

\* C16: on a grid that is a frame of 0 pixels, at least one pixel wide on each
\* of the four sides, around a non-empty interior without a 0 pixel,
\* get_edge_mask(img, 0) is true at the frame's pixels and false at the
\* interior's.
C16_FrameMasked ==
    (args # None /\ ret # None /\ Val(args).fn = "get_edge_mask" /\ Val(args).value = "0") =>
        LET img == Val(args).img
            H == Len(img)
            W == Len(img[1])
        IN  \A top, bottom \in 1..H, left, right \in 1..W :
                Framed(img, top, bottom, left, right) =>
                    Val(ret) = [r \in 1..H |-> [c \in 1..W |->
                                   \/ r <= top \/ r > H - bottom
                                   \/ c <= left \/ c > W - right]]

\* C16 witness: a 5 x 5 grid with a frame two pixels wide around one pixel
\* got its 24 frame pixels masked and the middle one not
C16_Witness ==
    /\ args # None /\ ret # None /\ Val(args).fn = "get_edge_mask"
    /\ Val(args).value = "0"
    /\ Len(Val(args).img) = 5
    /\ Framed(Val(args).img, 2, 2, 2, 2)
    /\ \A r, c \in 1..5 : Val(ret)[r][c] <=> <<r, c>> # <<3, 3>>

\* whether every pixel from (r, c) to one border of the grid, along its row or
\* along its column, equals value
Joined(img, value, r, c) ==
    LET H == Len(img)
        W == Len(img[1])
    IN  \/ \A i \in 1..r : float_eq(img[i][c], value)
        \/ \A i \in r..H : float_eq(img[i][c], value)
        \/ \A j \in 1..c : float_eq(img[r][j], value)
        \/ \A j \in c..W : float_eq(img[r][j], value)

\* C17: whatever the grid and the value, every pixel get_edge_mask marks equals
\* value and is joined to a border of the grid by a straight run of pixels
\* equal to value within its row or within its column; so a pixel that differs
\* from value, and a pixel equal to value that has a differing pixel on each of
\* its four ways to the border, is not marked.
C17_MarkedOnlyEdgeRuns ==
    (args # None /\ ret # None /\ Val(args).fn = "get_edge_mask") =>
        LET img == Val(args).img
            value == Val(args).value
        IN  \A r \in DOMAIN img : \A c \in DOMAIN img[r] :
                Val(ret)[r][c] =>
                    /\ float_eq(img[r][c], value)
                    /\ Joined(img, value, r, c)

\* C17 witness: in a 3 x 3 grid of 0 pixels with 1 above, below, left and right
\* of the middle, the four corners were marked and the middle 0 was not
C17_Witness ==
    /\ args # None /\ ret # None /\ Val(args).fn = "get_edge_mask"
    /\ Val(args).value = "0"
    /\ Val(args).img = <<<<"0", "1", "0">>, <<"1", "0", "1">>, <<"0", "1", "0">>>>
    /\ Val(ret) = <<<<TRUE, FALSE, TRUE>>, <<FALSE, FALSE, FALSE>>, <<TRUE, FALSE, TRUE>>>>

====
